---- MODULE Spec2Model ----
(***************************************************************************)
(* A model of the Jaguar Wolfenstein 3-D extractor (src/main.py and        *)
(* src/extractor/*.py).  Each component of the program is a small state    *)
(* machine over its own variables; a specification per component draws    *)
(* the component's inputs in its initial states and runs the code's steps. *)
(*                                                                         *)
(*   SpecDecompress   WADFile._decompress            (wad.py)              *)
(*   SpecObjects      GameMap._read_objects          (gamemap.py)          *)
(*   SpecChunk        riff.make_chunk                (riff.py)             *)
(*   SpecWav          wav.Writer.write               (wav.py)              *)
(*   SpecModulator    soundfont.ModulatorSource.pack (soundfont.py)        *)
(*   SpecBuilder      soundfont.SoundFontBuilder     (soundfont.py)        *)
(*                                                                         *)
(* Byte strings are sequences of integers in 0..255.  A Python exception   *)
(* is the name of the exception in the component's status variable.  An    *)
(* optional value (None or a value) is a sequence of length 0 or 1.        *)
(***************************************************************************)
EXTENDS Integers, Sequences, FiniteSets, TLC

VARIABLES
    \* WADFile._decompress
    compressed_data,   \* the argument: the compressed bytes
    position,          \* index of the next input byte (0-based, as in the code)
    output_data,       \* the list of bytes produced so far
    flag_byte,         \* the current flag byte, shifted right once per item
    bits_left,         \* iterations left of "for _ in range(8)"
    d_status,          \* "idle", "running", "returned" or the exception raised
    d_result,          \* <<>> until the function returns, then <<bytes>>
    \* GameMap._read_objects
    raw_objects,       \* the object records of the raw map, in file order
    object_count,      \* the u16 object count read at line 44
    o,                 \* the loop variable of "for o in range(object_count)"
    objects,           \* self._objects
    warnings,          \* the logger.warning calls made, in order
    r_status,          \* "idle", "reading", "done" or the exception raised
    \* riff.make_chunk
    identifier,        \* the argument: the chunk's tag
    data,              \* the argument: the payload
    chunk,             \* <<>> until make_chunk returns, then <<bytes>>
    c_status,          \* "idle", "ready", "returned" or the exception raised
    \* riff.make_list and riff.make_riff (identifier is their first argument)
    chunks,            \* the argument: the parts to join
    group,             \* <<>> until make_list or make_riff returns, then <<bytes>>
    l_status,          \* "idle", "ready", "list returned", "riff returned" or the exception
    \* wav.Writer.write
    writer,            \* the Writer's fields, the two class flags and write's arguments
    file,              \* the bytes written to the file so far
    w_status,          \* "idle", "ready" or "written"
    \* soundfont.ModulatorSource.pack
    source,            \* the ModulatorSource's fields
    is_amount_source,  \* pack's argument
    packed,            \* <<>> until pack returns, then <<value>>
    m_status,          \* "idle", "ready", "returned" or the exception raised
    \* soundfont.SoundFontBuilder
    phdr, pbag, pmod, pgen,   \* self._phdr, self._pbag, self._pmod, self._pgen
    inst, ibag, imod, igen,   \* self._inst, self._ibag, self._imod, self._igen
    shdr, smpl,               \* self._shdr, self._smpl
    calls,                    \* the calls made on the builder so far, in order
    \* GameMap.generate_dos_map
    _walls,            \* self._walls: the 4096 raw wall codes, indexed from 0
    _floorcodes,       \* self._floorcodes: the 64 floor codes, indexed from 0
    _objects,          \* self._objects, as _read_objects left them
    DETECT_PUSHWALL_DIRECTION_WHEN_CONVERTING_TO_DOS,  \* the class setting
    tiles,             \* <<>> until line 87, then <<plane 0, plane 1>>
    placed,            \* the number of objects the loop of line 95 has placed
    errors,            \* the logger.error calls made, in order
    g_status,          \* "idle", "ready", "placing", "returned" or the exception
    \* main.extract_files
    _lumps,            \* wad._lumps: the directory, a name and a type per lump
    lumps,             \* the argument lumps: <<>> for None, else <<the names asked for>>
    lump_type,         \* the argument lump_type: <<>> for None, else <<a type name>>
    entries,           \* the names the loop of line 24 goes through
    entry,             \* the number of entries the loop has been through
    saved,             \* the names of the lumps save_lump was called for, in order
    logged,            \* the names logging.error reported as unknown, in order
    soundfont_saved,   \* whether save_instruments_to_soundfont was called
    e_status,          \* "idle", "ready", "looping", "after loop" or "done"
    \* GameMap.save_as_wdc_map_file
    maps,              \* the argument maps: a name and two planes of tiles each
    wdc_file,          \* the bytes written to the file so far
    map_position,      \* the number of maps the loop of line 198 has written
    s_status,          \* "idle", "ready", "writing", "closed" or the exception
    \* SoundFontBuilder.create_prefix_generators and create_instrument_generators
    zone_arguments,    \* the arguments, with the builder's lists they read
    generators,        \* the list returned
    z_status,          \* "idle", "ready", "prefix returned", "instrument returned"
                       \* or "AssertionError"
    \* WADFile.save_instruments_to_soundfont
    instrument_lumps,  \* the Instrument lumps of the directory, name and data
    sf_position,       \* the number of lumps the running loop has been through
    loaded,            \* <<>>, or within an iteration <<what
                       \* add_instrument_from_lump returned>>
    sf2,               \* the SoundFontBuilder, a record of its lists
    sf2_data,          \* <<>> until build() has returned, then <<the bank>>
    sf2_file,          \* JAGWOLF3D.SF2: <<>> while it does not exist, else <<its content>>
    f_status,          \* "idle", "ready", "melodic", "percussion", "built", "open",
                       \* "written" or the exception
    \* WADFile._load_directory
    directory,         \* the entries of the directory in the file, in order
    typed_lumps,       \* lumps: the Lump records made so far
    last_marker,       \* <<>> for None, else <<the name of the last marker>>
    dir_status,        \* "idle", "reading" or "returned"
    \* WADFile.get_lump, called from several threads
    wad_lumps,         \* self._lumps as get_lump reads it: offset, length, is_compressed
    sync,              \* how the callers share the reader: "none", "mutex", "own readers"
    cursor,            \* the position of each reader's file object self._f
    mutex,             \* the thread that holds the callers' mutex, 0 when it is free
    call_index,        \* the argument index of each thread's call
    call_data,         \* the local data of each call: the bytes it read
    call_result,       \* <<>> until the call returns, then <<[name, data]>>
    call_pc,           \* where each call is: "ready", "sought", "read", "returned"
                       \* or the exception raised
    \* WADFile.save_lump and WADFile.save_combined_map_file
    COMBINE_MAPS_INTO_ONE_FILE,  \* the class setting, not separate_maps
    DUMP_RAW_DATA,     \* the class setting, raw
    to_save,           \* the lumps save_lump is called for, in the order of the loop
    save_index,        \* the number of save_lump calls made
    _maps,             \* self._maps: the converted maps kept for the combined file
    written,           \* the files written to the output path, in order
    v_status           \* "idle", "saving", "combined" or the exception raised

decompressVars ==
    <<compressed_data, position, output_data, flag_byte, bits_left, d_status,
     d_result>>

objectsVars ==
    <<raw_objects, object_count, o, objects, warnings, r_status>>

chunkVars ==
    <<identifier, data, chunk, c_status, chunks, group, l_status>>

wavVars ==
    <<writer, file, w_status>>

modulatorVars ==
    <<source, is_amount_source, packed, m_status>>

builderVars ==
    <<phdr, pbag, pmod, pgen, inst, ibag, imod, igen, shdr, smpl, calls>>

dosMapVars ==
    <<_walls, _floorcodes, _objects,
     DETECT_PUSHWALL_DIRECTION_WHEN_CONVERTING_TO_DOS, tiles, placed, errors,
     g_status>>

extractVars ==
    <<_lumps, lumps, lump_type, entries, entry, saved, logged,
     soundfont_saved, e_status>>

wdcVars ==
    <<maps, wdc_file, map_position, s_status>>

zoneVars ==
    <<zone_arguments, generators, z_status>>

soundfontVars ==
    <<instrument_lumps, sf_position, loaded, sf2, sf2_data, sf2_file, f_status>>

directoryVars ==
    <<directory, typed_lumps, last_marker, dir_status>>

getLumpVars ==
    <<wad_lumps, sync, cursor, mutex, call_index, call_data, call_result,
     call_pc>>

saveMapsVars ==
    <<COMBINE_MAPS_INTO_ONE_FILE, DUMP_RAW_DATA, to_save, save_index, _maps,
     written, v_status>>

vars ==
    <<decompressVars, objectsVars, chunkVars, wavVars, modulatorVars,
     builderVars, dosMapVars, extractVars, wdcVars, zoneVars, soundfontVars,
     directoryVars, getLumpVars, saveMapsVars>>

\* What each component leaves alone.
exceptDecompress ==
    <<objectsVars, chunkVars, wavVars, modulatorVars, builderVars,
     dosMapVars, extractVars, wdcVars, zoneVars, soundfontVars,
     directoryVars, getLumpVars, saveMapsVars>>

exceptObjects ==
    <<decompressVars, chunkVars, wavVars, modulatorVars, builderVars,
     dosMapVars, extractVars, wdcVars, zoneVars, soundfontVars,
     directoryVars, getLumpVars, saveMapsVars>>

exceptChunk ==
    <<decompressVars, objectsVars, wavVars, modulatorVars, builderVars,
     dosMapVars, extractVars, wdcVars, zoneVars, soundfontVars,
     directoryVars, getLumpVars, saveMapsVars>>

exceptWav ==
    <<decompressVars, objectsVars, chunkVars, modulatorVars, builderVars,
     dosMapVars, extractVars, wdcVars, zoneVars, soundfontVars,
     directoryVars, getLumpVars, saveMapsVars>>

exceptModulator ==
    <<decompressVars, objectsVars, chunkVars, wavVars, builderVars,
     dosMapVars, extractVars, wdcVars, zoneVars, soundfontVars,
     directoryVars, getLumpVars, saveMapsVars>>

exceptBuilder ==
    <<decompressVars, objectsVars, chunkVars, wavVars, modulatorVars,
     dosMapVars, extractVars, wdcVars, zoneVars, soundfontVars,
     directoryVars, getLumpVars, saveMapsVars>>

exceptDosMap ==
    <<decompressVars, objectsVars, chunkVars, wavVars, modulatorVars,
     builderVars, extractVars, wdcVars, zoneVars, soundfontVars,
     directoryVars, getLumpVars, saveMapsVars>>

exceptExtract ==
    <<decompressVars, objectsVars, chunkVars, wavVars, modulatorVars,
     builderVars, dosMapVars, wdcVars, zoneVars, soundfontVars,
     directoryVars, getLumpVars, saveMapsVars>>

exceptWdc ==
    <<decompressVars, objectsVars, chunkVars, wavVars, modulatorVars,
     builderVars, dosMapVars, extractVars, zoneVars, soundfontVars,
     directoryVars, getLumpVars, saveMapsVars>>

exceptZone ==
    <<decompressVars, objectsVars, chunkVars, wavVars, modulatorVars,
     builderVars, dosMapVars, extractVars, wdcVars, soundfontVars,
     directoryVars, getLumpVars, saveMapsVars>>

exceptSoundfont ==
    <<decompressVars, objectsVars, chunkVars, wavVars, modulatorVars,
     builderVars, dosMapVars, extractVars, wdcVars, zoneVars, directoryVars,
     getLumpVars, saveMapsVars>>

exceptDirectory ==
    <<decompressVars, objectsVars, chunkVars, wavVars, modulatorVars,
     builderVars, dosMapVars, extractVars, wdcVars, zoneVars, soundfontVars,
     getLumpVars, saveMapsVars>>

exceptGetLump ==
    <<decompressVars, objectsVars, chunkVars, wavVars, modulatorVars,
     builderVars, dosMapVars, extractVars, wdcVars, zoneVars, soundfontVars,
     directoryVars, saveMapsVars>>

exceptSaveMaps ==
    <<decompressVars, objectsVars, chunkVars, wavVars, modulatorVars,
     builderVars, dosMapVars, extractVars, wdcVars, zoneVars, soundfontVars,
     directoryVars, getLumpVars>>

-----------------------------------------------------------------------------
(* Helpers shared by the components.                                       *)

\* All sequences over S of length at most n.
SeqsUpTo(S, n) == UNION {[1..k -> S] : k \in 0..n}

\* Python's list[i] for an index i that is in range: a negative index counts
\* from the end of the list.
PyIndexInRange(list, i) == -Len(list) <= i /\ i < Len(list)

PyGetItem(list, i) == IF i >= 0 THEN list[i + 1] ELSE list[Len(list) + i + 1]

-----------------------------------------------------------------------------
(* WADFile._decompress, src/extractor/wad.py lines 153-187.                *)

\* Input bytes the model draws compressed streams from.  As flag bytes:
\* 1 = back-reference first; 2 = literal, back-reference, literals;
\* 6 = literal, back-reference, back-reference; 0 = eight literals.
\* As the second byte of a pair: 0 = length nibble 0 (end of stream);
\* 1, 2, 6 = offset bits 0 with nibble 1, 2, 6; 18 = 0x12 (offset 1, nibble 2);
\* 33 = 0x21 (offset 2, nibble 1); 65 = 0x41 (offset 4, nibble 1).
ByteSet == {0, 1, 2, 6, 18, 33, 65}

\* Longest compressed stream drawn freely over ByteSet.
MaxInputLen == 5

\* One full group of eight literal items: a flag byte of 0 and eight bytes.
LiteralGroup == <<0, 65, 66, 67, 68, 69, 70, 71, 72>>

\* The compressed streams decompressed: every short stream over ByteSet,
\* alone and after one full literal group (so that a second flag byte is read).
CompressedInputs ==
    LET short == SeqsUpTo(ByteSet, MaxInputLen)
    IN  short \cup {LiteralGroup \o s : s \in SeqsUpTo(ByteSet, MaxInputLen - 1)}

\* Lines 180-182: for __ in range(length): output_data.append(output_data[offset]);
\* offset += 1.  offset is a Python list index: a negative one counts from the
\* end of the list as extended so far, one outside the list raises IndexError.
RECURSIVE CopyRun(_, _, _)
CopyRun(out, offset, length) ==
    IF length = 0 THEN [raised |-> FALSE, out |-> out]
    ELSE IF ~PyIndexInRange(out, offset) THEN [raised |-> TRUE, out |-> out]
    ELSE CopyRun(Append(out, PyGetItem(out, offset)), offset + 1, length - 1)

\* Line 165: flag_byte >>= 1.
ShiftFlagByteKeepsBit(flag) == flag

ShiftFlagByte(flag) == flag \div 2

\* Line 177: assert offset > 0.
OffsetAssertHolds(offset) == offset > 0

\* Lines 174-177 with the assertion made before the test of the length.
PairOutcomeAssertFirst(offset, length) ==
    IF ~OffsetAssertHolds(offset) THEN "AssertionError"
    ELSE IF length = 0 THEN "finished"
    ELSE "copy"

\* Lines 174-177: what follows the decoding of a pair: "if not length" ends
\* the stream, then the assertion on the offset, then the copy.
PairOutcome(offset, length) ==
    IF length = 0 THEN "finished"
    ELSE IF ~OffsetAssertHolds(offset) THEN "AssertionError"
    ELSE "copy"

\* Line 179: offset = len(output_data) - offset.
CopyStartOneLate(out, offset) == Len(out) - offset + 1

CopyStart(out, offset) == Len(out) - offset

\* Lines 159-161: the head of "while not finished": read the next flag byte.
ReadFlagByte ==
    /\ d_status = "running"
    /\ bits_left = 0
    /\ IF position >= Len(compressed_data)
       THEN /\ d_status' = "IndexError"
            /\ UNCHANGED <<position, flag_byte, bits_left>>
       ELSE /\ flag_byte' = compressed_data[position + 1]
            /\ position' = position + 1
            /\ bits_left' = 8
            /\ UNCHANGED d_status
    /\ UNCHANGED <<compressed_data, output_data, d_result>>

\* Lines 164-165 and 183-186: a flag bit of 0, one literal byte.
DecodeLiteral ==
    /\ d_status = "running"
    /\ bits_left > 0
    /\ flag_byte % 2 = 0
    /\ IF position >= Len(compressed_data)
       THEN /\ d_status' = "IndexError"
            /\ UNCHANGED <<position, output_data, flag_byte, bits_left>>
       ELSE /\ output_data' = Append(output_data, compressed_data[position + 1])
            /\ position' = position + 1
            /\ flag_byte' = ShiftFlagByte(flag_byte)
            /\ bits_left' = bits_left - 1
            /\ UNCHANGED d_status
    /\ UNCHANGED <<compressed_data, d_result>>

\* Lines 164-182 and 187: a flag bit of 1, an offset/length pair.
DecodeBackReference ==
    /\ d_status = "running"
    /\ bits_left > 0
    /\ flag_byte % 2 = 1
    /\ IF position + 1 >= Len(compressed_data)
       THEN \* compressed_data[position] or compressed_data[position + 1] is past the end
            /\ d_status' = "IndexError"
            /\ UNCHANGED <<position, output_data, flag_byte, bits_left, d_result>>
       ELSE LET b0 == compressed_data[position + 1]
                b1 == compressed_data[position + 2]
                offset == b0 * 16 + (b1 \div 16)
                length == b1 % 16
                run == CopyRun(output_data, CopyStart(output_data, offset), length + 1)
            IN  /\ position' = position + 2
                /\ flag_byte' = ShiftFlagByte(flag_byte)
                /\ IF PairOutcome(offset, length) = "finished"
                   THEN \* finished = True; break; return bytes(output_data)
                        /\ d_status' = "returned"
                        /\ d_result' = <<output_data>>
                        /\ UNCHANGED <<output_data, bits_left>>
                   ELSE IF PairOutcome(offset, length) = "AssertionError"
                   THEN /\ d_status' = "AssertionError"
                        /\ UNCHANGED <<output_data, bits_left, d_result>>
                   ELSE /\ output_data' = run.out
                        /\ d_status' = IF run.raised THEN "IndexError" ELSE "running"
                        /\ bits_left' = IF run.raised THEN bits_left ELSE bits_left - 1
                        /\ UNCHANGED d_result
    /\ UNCHANGED compressed_data

InitDecompress ==
    /\ compressed_data \in CompressedInputs
    /\ position = 0
    /\ output_data = <<>>
    /\ flag_byte = 0
    /\ bits_left = 0
    /\ d_status = "running"
    /\ d_result = <<>>

\* The decompressor is not in use.
IdleDecompress ==
    /\ compressed_data = <<>>
    /\ position = 0
    /\ output_data = <<>>
    /\ flag_byte = 0
    /\ bits_left = 0
    /\ d_status = "idle"
    /\ d_result = <<>>

NextDecompress ==
    \/ ReadFlagByte /\ UNCHANGED exceptDecompress
    \/ DecodeLiteral /\ UNCHANGED exceptDecompress
    \/ DecodeBackReference /\ UNCHANGED exceptDecompress

-----------------------------------------------------------------------------
(* GameMap._read_objects, src/extractor/gamemap.py lines 43-75.            *)

_MAP_SIZE == 64

_PUSHWALL == 98

\* The (x, y) bytes the model draws object records from: on the map, on its
\* last row and column, one past it (64) and far off it.
CoordPairs == {<<10, 10>>, <<0, 63>>, <<64, 10>>, <<10, 64>>, <<65, 200>>, <<255, 255>>}

\* Object codes drawn: a door (0x5D), a pushwall (0x62) and a plain object.
ObjectCodes == {93, 98, 19}

\* The wall bytes drawn to follow a pushwall record.
WallBytes == {33}

\* Most object records in a raw map of the model.
MaxObjects == 2

\* A raw record: x, y, code, and the extra wall byte when code is the pushwall.
RawRecords ==
    {[x |-> c[1], y |-> c[2], code |-> k, wall |-> IF k = _PUSHWALL THEN <<w>> ELSE <<>>] :
        c \in CoordPairs, k \in ObjectCodes, w \in WallBytes}

\* Line 56: the test that guards logger.warning.
OffMapWarning(x, y) == ~(0 <= x /\ x <= _MAP_SIZE /\ 0 <= y /\ y <= _MAP_SIZE)

\* Lines 59-62 (x) and 63-66 (y): the two corrections, one after the other.
ClampCoordinate(v) == IF v >= _MAP_SIZE THEN _MAP_SIZE - 1 ELSE v

CorrectCoordinate(v) ==
    LET raised == IF v < 0 THEN v + _MAP_SIZE ELSE v
    IN  IF raised >= _MAP_SIZE THEN raised - _MAP_SIZE ELSE raised

\* Lines 68-75: the dict appended to self._objects.
MakeObject(x, y, rec) == [x |-> x, y |-> y, code |-> rec.code, wall |-> rec.wall]

\* Lines 48-75: one iteration of the loop over the object records.  Reading
\* past the end of the data raises struct.error (b'' never equals '').
ReadObject ==
    /\ r_status = "reading"
    /\ o < object_count
    /\ IF o >= Len(raw_objects)
       THEN /\ r_status' = "struct.error"
            /\ UNCHANGED <<o, objects, warnings>>
       ELSE LET rec == raw_objects[o + 1]
            IN  /\ warnings' = IF OffMapWarning(rec.x, rec.y)
                                THEN Append(warnings, [o |-> o, x |-> rec.x, y |-> rec.y])
                                ELSE warnings
                /\ objects' = Append(objects,
                       MakeObject(CorrectCoordinate(rec.x), CorrectCoordinate(rec.y), rec))
                /\ o' = o + 1
                /\ UNCHANGED r_status
    /\ UNCHANGED <<raw_objects, object_count>>

\* The loop is exhausted and _read_objects returns.
FinishReadObjects ==
    /\ r_status = "reading"
    /\ o >= object_count
    /\ r_status' = "done"
    /\ UNCHANGED <<raw_objects, object_count, o, objects, warnings>>

InitObjects ==
    /\ raw_objects \in SeqsUpTo(RawRecords, MaxObjects)
    /\ object_count \in 0..(MaxObjects + 1)
    /\ o = 0
    /\ objects = <<>>
    /\ warnings = <<>>
    /\ r_status = "reading"

\* No map is being read.
IdleObjects ==
    /\ raw_objects = <<>>
    /\ object_count = 0
    /\ o = 0
    /\ objects = <<>>
    /\ warnings = <<>>
    /\ r_status = "idle"

NextObjects ==
    \/ ReadObject /\ UNCHANGED exceptObjects
    \/ FinishReadObjects /\ UNCHANGED exceptObjects

-----------------------------------------------------------------------------
(* riff.make_chunk, src/extractor/riff.py lines 5-13.                      *)

\* The low n bytes of value, least significant first.
RECURSIVE LittleEndian(_, _)
LittleEndian(value, n) ==
    IF n = 0 THEN <<>> ELSE <<value % 256>> \o LittleEndian(value \div 256, n - 1)

\* Lines 5-6: struct.pack('<I', value).
_uint32_to_bytes(value) == LittleEndian(value, 4)

\* Lines 11-12: if len(data) % 2 == 1: data += b'\x00'.
PadToEven(bytes) == IF Len(bytes) % 2 = 1 THEN Append(bytes, 0) ELSE bytes

\* Line 13: identifier + _uint32_to_bytes(len(data)) + data, data being the
\* payload as padded by lines 11-12.
make_chunk(tag, payload) ==
    tag \o _uint32_to_bytes(Len(PadToEven(payload))) \o PadToEven(payload)

\* The tags drawn: b'smpl', b'LIST' and the three-byte b'cue'.
ChunkTags == {<<115, 109, 112, 108>>, <<76, 73, 83, 84>>, <<99, 117, 101>>}

\* The payload bytes drawn.
PayloadBytes == {0, 7, 255}

\* Longest payload drawn.
MaxPayloadLen == 3

\* Lines 9-13: one call of make_chunk.
MakeChunk ==
    /\ c_status = "ready"
    /\ IF Len(identifier) # 4
       THEN c_status' = "AssertionError" /\ UNCHANGED chunk
       ELSE c_status' = "returned" /\ chunk' = <<make_chunk(identifier, data)>>
    /\ UNCHANGED <<identifier, data, chunks, group, l_status>>

\* Lines 24 and 28: the chunk identifiers b'LIST' and b'RIFF'.
ListTag == <<76, 73, 83, 84>>

RiffTag == <<82, 73, 70, 70>>

\* b''.join(chunks).
RECURSIVE Join(_)
Join(parts) == IF parts = <<>> THEN <<>> ELSE Head(parts) \o Join(Tail(parts))

\* Lines 16-20: _make_list_chunk, once its two assertions hold.
_make_list_chunk(chunk_identifier, list_identifier, parts) ==
    chunk_identifier \o _uint32_to_bytes(Len(Join(parts)) + Len(list_identifier))
        \o list_identifier \o Join(parts)

\* The parts drawn: b'' (what build() passes for an absent chunk), a chunk
\* made by make_chunk and a single byte.
PartChoices == {<<>>, make_chunk(<<105, 102, 105, 108>>, <<2, 0, 1, 0>>), <<7>>}

\* Most parts passed to make_list or make_riff.
MaxParts == 2

\* Lines 23-24: one call of make_list(identifier, chunks).
MakeList ==
    /\ l_status = "ready"
    /\ IF Len(ListTag) # 4 \/ Len(identifier) # 4
       THEN l_status' = "AssertionError" /\ UNCHANGED group
       ELSE /\ l_status' = "list returned"
            /\ group' = <<_make_list_chunk(ListTag, identifier, chunks)>>
    /\ UNCHANGED <<identifier, data, chunk, c_status, chunks>>

\* Lines 27-28: one call of make_riff(identifier, chunks).
MakeRiff ==
    /\ l_status = "ready"
    /\ IF Len(RiffTag) # 4 \/ Len(identifier) # 4
       THEN l_status' = "AssertionError" /\ UNCHANGED group
       ELSE /\ l_status' = "riff returned"
            /\ group' = <<_make_list_chunk(RiffTag, identifier, chunks)>>
    /\ UNCHANGED <<identifier, data, chunk, c_status, chunks>>

InitChunk ==
    /\ identifier \in ChunkTags
    /\ data \in SeqsUpTo(PayloadBytes, MaxPayloadLen)
    /\ chunk = <<>>
    /\ c_status = "ready"
    /\ chunks \in SeqsUpTo(PartChoices, MaxParts)
    /\ group = <<>>
    /\ l_status = "ready"

IdleChunk ==
    /\ identifier = <<>>
    /\ data = <<>>
    /\ chunk = <<>>
    /\ c_status = "idle"
    /\ chunks = <<>>
    /\ group = <<>>
    /\ l_status = "idle"

NextChunk ==
    \/ MakeChunk /\ UNCHANGED exceptChunk
    \/ MakeList /\ UNCHANGED exceptChunk
    \/ MakeRiff /\ UNCHANGED exceptChunk

-----------------------------------------------------------------------------
(* wav.Writer.write, src/extractor/wav.py lines 4-102.                     *)

\* Lines 4-6 and 9-11: struct.pack('<h', x) and struct.pack('<i', x), for x
\* in the format's range: two's complement, least significant byte first
\* (% and \div round down, so LittleEndian gives the two's complement bytes).
write_short(x) == LittleEndian(x, 2)

write_int(x) == LittleEndian(x, 4)

\* Line 31: self.bytes_per_sample = self.bits_per_sample // 8.
bytes_per_sample(w) == w.bits_per_sample \div 8

\* Lines 37-39: an odd number of 8-bit samples is padded by one sample.
sound_data(w) ==
    IF bytes_per_sample(w) = 1 /\ Len(w.sound_data) % 2 = 1
    THEN Append(w.sound_data, IF w.signed THEN 0 ELSE 128)
    ELSE w.sound_data

\* Lines 40-46: the size declared for the RIFF chunk.
chunk_size_without_cue_chunk(w) ==
    36 + Len(sound_data(w)) * bytes_per_sample(w)
       + (IF w.loop_offset # <<>> /\ w.INCLUDE_LOOP_CUE_CHUNK_IN_WAV THEN 30 ELSE 0)
       + (IF w.loop_offset # <<>> /\ w.INCLUDE_LOOP_SMPL_CHUNK_IN_WAV THEN 68 ELSE 0)

chunk_size(w) ==
    36 + Len(sound_data(w)) * bytes_per_sample(w)
       + (IF w.loop_offset # <<>> /\ w.INCLUDE_LOOP_CUE_CHUNK_IN_WAV THEN 36 + 30 ELSE 0)
       + (IF w.loop_offset # <<>> /\ w.INCLUDE_LOOP_SMPL_CHUNK_IN_WAV THEN 68 ELSE 0)

\* Lines 62-63 with every sample packed as 'B'.
PackSamplesAsBytes(w) == [i \in 1..Len(sound_data(w)) |-> sound_data(w)[i] % 256]

\* Lines 62-63: struct.pack(pack_fmt * len(sound_data), *sound_data), one
\* byte a sample for 'B' and two for 'h'.
PackSamples(w) ==
    LET samples == sound_data(w)
    IN  IF w.bits_per_sample = 8
        THEN [i \in 1..Len(samples) |-> samples[i] % 256]
        ELSE [i \in 1..(2 * Len(samples)) |->
                 LET v == samples[(i + 1) \div 2] % 65536
                 IN  IF i % 2 = 1 THEN v % 256 ELSE v \div 256]

\* The four-character tags the writer emits.
TagRIFF == <<82, 73, 70, 70>>

TagWAVE == <<87, 65, 86, 69>>

TagFmt == <<102, 109, 116, 32>>

TagData == <<100, 97, 116, 97>>

TagSmpl == <<115, 109, 112, 108>>

TagCue == <<99, 117, 101, 32>>

TagLIST == <<76, 73, 83, 84>>

TagAdtl == <<97, 100, 116, 108>>

TagLabl == <<108, 97, 98, 108>>

\* b"loop\0\0"
LoopLabel == <<108, 111, 111, 112, 0, 0>>

\* Lines 48-63: the RIFF header, the fmt chunk and the data chunk.
WavHeaderAndData(w) ==
    TagRIFF \o write_int(chunk_size(w)) \o TagWAVE
    \o TagFmt \o write_int(16) \o write_short(1) \o write_short(w.channels)
    \o write_int(w.sample_rate)
    \o write_int(w.sample_rate * bytes_per_sample(w) * w.channels)
    \o write_short(bytes_per_sample(w) * w.channels)
    \o write_short(w.bits_per_sample)
    \o TagData \o write_int(Len(sound_data(w)) * bytes_per_sample(w))
    \o PackSamples(w)

\* Lines 66-83: the smpl chunk.
SmplChunk(w) ==
    TagSmpl \o write_int(60) \o write_int(0) \o write_int(0)
    \o write_int(1000000000 \div w.sample_rate)
    \o write_int(60) \o write_int(0) \o write_int(0) \o write_int(0)
    \o write_int(1) \o write_int(0) \o write_int(0) \o write_int(0)
    \o write_int(w.loop_offset[1])
    \o write_int(Len(sound_data(w)) \div w.channels)
    \o write_int(0) \o write_int(0)

\* Lines 84-102: the cue chunk and the LIST chunk that labels the cue point.
CueAndLabelChunks(w) ==
    TagCue \o write_int(4 + 1 * 24) \o write_int(1) \o write_int(0)
    \o write_int(w.loop_offset[1]) \o TagData \o write_int(0) \o write_int(0)
    \o write_int(w.loop_offset[1])
    \o TagLIST \o write_int(22) \o TagAdtl \o TagLabl \o write_int(4 + 6)
    \o write_int(0) \o LoopLabel

\* Lines 34-102: everything write() writes to the file.
WavFile(w) ==
    WavHeaderAndData(w)
    \o (IF w.loop_offset # <<>> /\ w.INCLUDE_LOOP_SMPL_CHUNK_IN_WAV
        THEN SmplChunk(w) ELSE <<>>)
    \o (IF w.loop_offset # <<>> /\ w.INCLUDE_LOOP_CUE_CHUNK_IN_WAV
        THEN CueAndLabelChunks(w) ELSE <<>>)

\* Sample values drawn.
SampleValues == {0, 200}

\* Longest freely drawn sample sequence.
MaxSamples == 2

\* 200 samples, the example of the specification.
TwoHundredSamples == [i \in 1..200 |-> 0]

WriterInputs ==
    [sample_rate : {22050},
     channels : {1, 2},
     bits_per_sample : {8, 16},
     signed : BOOLEAN,
     INCLUDE_LOOP_CUE_CHUNK_IN_WAV : BOOLEAN,
     INCLUDE_LOOP_SMPL_CHUNK_IN_WAV : BOOLEAN,
     sound_data : SeqsUpTo(SampleValues, MaxSamples) \cup {TwoHundredSamples},
     loop_offset : {<<>>, <<0>>, <<100>>}]

\* Lines 34-102: one call of Writer.write on an empty file.
Write ==
    /\ w_status = "ready"
    /\ file' = file \o WavFile(writer)
    /\ w_status' = "written"
    /\ UNCHANGED writer

InitWav ==
    /\ writer \in WriterInputs
    /\ file = <<>>
    /\ w_status = "ready"

IdleWav ==
    /\ writer = <<>>
    /\ file = <<>>
    /\ w_status = "idle"

NextWav == Write /\ UNCHANGED exceptWav

-----------------------------------------------------------------------------
(* soundfont.ModulatorSource.pack, src/extractor/soundfont.py 158-187.     *)

\* Lines 33-41: the values of the enumeration SourceController.
SourceController == {0, 2, 3, 10, 13, 14, 16, 127}

\* Line 176: the indexes refused when the CC flag is set.
IllegalCCIndexes == {0, 6, 32, 38, 98, 99, 100, 101, 120, 121, 122, 123, 124, 125, 126, 127}

\* Line 179: the indexes allowed when the CC flag is not set.
LegalNonCCIndexes == {0, 2, 3, 10, 13, 14, 16}

\* Lines 172-174: x & ~mask == 0 for mask = 0x3f or 1: x is in 0..mask.
FitsMask(x, mask) == 0 <= x /\ x <= mask

\* Lines 172-182: the assertions of pack, in order.
PackAssertionsHold(src, amount_source) ==
    /\ FitsMask(src.source_type, 63)
    /\ FitsMask(src.polarity, 1)
    /\ FitsMask(src.direction, 1)
    /\ IF src.cc_flag
       THEN src.index \notin IllegalCCIndexes
       ELSE /\ src.index \in LegalNonCCIndexes
            /\ ~(amount_source /\ src.index = 127)

\* Lines 183-187: the value returned, a sum of the shifted fields.
PackedValue(src) ==
    src.source_type * 1024 + src.polarity * 512 + src.direction * 256
        + (IF src.cc_flag THEN 1 ELSE 0) * 128 + src.index

\* The modulator sources drawn.
ModulatorSources ==
    [source_type : {0, 1, 3, 63, 64},
     polarity : {0, 1, 2},
     direction : {0, 1, 2},
     cc_flag : BOOLEAN,
     index : {0, 1, 2, 3, 6, 7, 10, 13, 14, 16, 32, 91, 101, 119, 120, 127, 128, 130}]

\* Lines 170-187: one call of pack.
Pack ==
    /\ m_status = "ready"
    /\ IF PackAssertionsHold(source, is_amount_source)
       THEN m_status' = "returned" /\ packed' = <<PackedValue(source)>>
       ELSE m_status' = "AssertionError" /\ UNCHANGED packed
    /\ UNCHANGED <<source, is_amount_source>>

InitModulator ==
    /\ source \in ModulatorSources
    /\ is_amount_source \in BOOLEAN
    /\ packed = <<>>
    /\ m_status = "ready"

IdleModulator ==
    /\ source = <<>>
    /\ is_amount_source = FALSE
    /\ packed = <<>>
    /\ m_status = "idle"

NextModulator == Pack /\ UNCHANGED exceptModulator

-----------------------------------------------------------------------------
(* soundfont.SoundFontBuilder, src/extractor/soundfont.py lines 346-614.   *)
(* A record of a list keeps the fields the builder reads or sets; the      *)
(* reserved fields of a preset header (library, genre, morphology) are 0.  *)
(* An AmountType is its two packed bytes.                                  *)

\* Lines 166-168: ModulatorSource.empty().
EmptyModulatorSource ==
    [source_type |-> 0, polarity |-> 0, direction |-> 0, cc_flag |-> FALSE, index |-> 0]

\* Line 363: the terminal preset header.
TerminalPresetHeader == [name |-> "EOP", preset |-> 0, bank |-> 0, preset_bag_index |-> 0]

\* Lines 364 and 369: the terminal bag.
TerminalBag == [generator_index |-> 0, modulator_index |-> 0]

\* Lines 365-366 and 370-371: the terminal modulator.
TerminalModulator ==
    [source |-> EmptyModulatorSource, destination |-> 0, amount |-> 0,
     amount_source |-> EmptyModulatorSource, transform |-> 0]

\* Lines 367 and 372: the terminal generator.
TerminalGenerator == [operator |-> 0, amount |-> <<0, 0>>]

\* Line 368: the terminal instrument.
TerminalInstrument == [name |-> "EOI", instrument_bag_index |-> 0]

\* Line 373: the terminal sample header.
TerminalSample ==
    [name |-> "EOS", start |-> 0, end |-> 0, start_loop |-> 0, end_loop |-> 0,
     sample_rate |-> 0, original_pitch |-> 0, pitch_correction |-> 0,
     sample_link |-> 0, sample_type |-> 0]

\* list.append(record): after the last element.
InsertAfterLast(list, record) == list \o <<record>>

\* list.insert(-1, record): before the last element (at the front of an
\* empty list).
InsertBeforeLast(list, record) ==
    IF Len(list) = 0 THEN <<record>>
    ELSE SubSeq(list, 1, Len(list) - 1) \o <<record, list[Len(list)]>>

\* Lines 379-382: insert every record, in order, in front of the terminal one.
RECURSIVE InsertAll(_, _)
InsertAll(list, records) ==
    IF records = <<>> THEN list
    ELSE InsertAll(InsertBeforeLast(list, Head(records)), Tail(records))

\* _add_records returning len(record_list), the terminal record counted.
_add_records_counting_terminal(record_list, records_to_add) ==
    [index |-> Len(record_list), list |-> InsertAll(record_list, records_to_add)]

\* Lines 375-383: _add_records returns the index the first record gets and
\* leaves the list extended.
_add_records(record_list, records_to_add) ==
    [index |-> Len(record_list) - 1, list |-> InsertAll(record_list, records_to_add)]

\* Lines 575-580: len(list) - 1, the value build() gives a terminal record's
\* index field.
LengthWithTerminal(list) == Len(list)

LiveCount(list) == Len(list) - 1

\* list[0].field = value.
SetFirst(list, field, value) == [list EXCEPT ![1] = [@ EXCEPT ![field] = value]]

\* list[-1].field = value (lines 575-580).
SetLast(list, field, value) == [list EXCEPT ![Len(list)] = [@ EXCEPT ![field] = value]]

\* Generators and modulators the model passes to the zones: KEY_RANGE (0, 127),
\* a link generator (INSTRUMENT or SAMPLE_ID) with index 0, and the modulator
\* of ModulatorList.midi_note_on_velocity_to_initial_attenuation (lines 204-210).
KeyRangeGenerator == [operator |-> 43, amount |-> <<0, 127>>]

InstrumentGenerator == [operator |-> 41, amount |-> <<0, 0>>]

SampleIdGenerator == [operator |-> 53, amount |-> <<0, 0>>]

VelocityModulator ==
    [source |-> [source_type |-> 1, polarity |-> 0, direction |-> 1,
                 cc_flag |-> FALSE, index |-> 2],
     destination |-> 48, amount |-> 960,
     amount_source |-> EmptyModulatorSource, transform |-> 0]

\* The (generator, modulator) arguments drawn for add_preset_zone.
PresetZoneArguments ==
    {[generator |-> <<>>, modulator |-> <<>>],
     [generator |-> <<InstrumentGenerator>>, modulator |-> <<VelocityModulator>>],
     [generator |-> <<KeyRangeGenerator, InstrumentGenerator>>, modulator |-> <<>>]}

\* The (generator, modulator) arguments drawn for add_instrument_zone.
InstrumentZoneArguments ==
    {[generator |-> <<>>, modulator |-> <<VelocityModulator>>],
     [generator |-> <<KeyRangeGenerator, SampleIdGenerator>>, modulator |-> <<>>]}

\* The (name, preset, bank) arguments drawn for add_preset; the last two
\* fail an assertion (an empty name, a preset number of 128).
PresetArguments ==
    {[name |-> "I5", preset |-> 4, bank |-> 0],
     [name |-> "PERCUSSION", preset |-> 0, bank |-> 128],
     [name |-> "", preset |-> 0, bank |-> 0],
     [name |-> "I129", preset |-> 128, bank |-> 0]}

\* len(name) of the names drawn.
NameLength(name) ==
    CASE name = "" -> 0
      [] name = "I5" -> 2
      [] name = "I129" -> 4
      [] name = "PERCUSSION" -> 10
      [] OTHER -> 3

\* Most calls made on one builder.
MaxCalls == 4

\* Lines 386-388: the assertions of add_preset.
AddPresetAssertionsHold(a) ==
    /\ 0 < NameLength(a.name) /\ NameLength(a.name) <= 20
    /\ 0 <= a.preset /\ a.preset <= 127
    /\ 0 <= a.bank /\ a.bank <= 128

\* Lines 385-394: add_preset(name, preset, bank).
AddPreset ==
    /\ Len(calls) < MaxCalls
    /\ \E a \in PresetArguments :
          IF AddPresetAssertionsHold(a)
          THEN LET bag_index == Len(pbag) - 1
                   header == [name |-> a.name, preset |-> a.preset, bank |-> a.bank,
                              preset_bag_index |-> bag_index]
               IN  /\ phdr' = InsertBeforeLast(phdr, header)
                   /\ calls' = Append(calls, [op |-> "add_preset", args |-> a,
                                              raised |-> FALSE, result |-> Len(phdr') - 2])
          ELSE /\ calls' = Append(calls, [op |-> "add_preset", args |-> a,
                                          raised |-> TRUE, result |-> 0])
               /\ UNCHANGED phdr
    /\ UNCHANGED <<pbag, pmod, pgen, inst, ibag, imod, igen, shdr, smpl>>

\* Lines 396-401: add_preset_zone(generator, modulator).
AddPresetZone ==
    /\ Len(calls) < MaxCalls
    /\ \E z \in PresetZoneArguments :
          LET mods == _add_records(pmod, z.modulator)
              gens == _add_records(pgen, z.generator)
              bag == [generator_index |-> gens.index, modulator_index |-> mods.index]
          IN  /\ pmod' = mods.list
              /\ pgen' = gens.list
              /\ pbag' = _add_records(pbag, <<bag>>).list
              /\ calls' = Append(calls, [op |-> "add_preset_zone", args |-> z,
                                         raised |-> FALSE, result |-> 0])
    /\ UNCHANGED <<phdr, inst, ibag, imod, igen, shdr, smpl>>

\* Lines 403-406: add_instrument(name).
AddInstrument ==
    /\ Len(calls) < MaxCalls
    /\ \E name \in {"I5"} :
          LET bag_index == Len(ibag) - 1
          IN  /\ inst' = InsertBeforeLast(inst,
                            [name |-> name, instrument_bag_index |-> bag_index])
              /\ calls' = Append(calls, [op |-> "add_instrument", args |-> name,
                                         raised |-> FALSE, result |-> Len(inst') - 2])
    /\ UNCHANGED <<phdr, pbag, pmod, pgen, ibag, imod, igen, shdr, smpl>>

\* Lines 408-413: add_instrument_zone(generator, modulator).
AddInstrumentZone ==
    /\ Len(calls) < MaxCalls
    /\ \E z \in InstrumentZoneArguments :
          LET gens == _add_records(igen, z.generator)
              mods == _add_records(imod, z.modulator)
              bag == [generator_index |-> gens.index, modulator_index |-> mods.index]
          IN  /\ igen' = gens.list
              /\ imod' = mods.list
              /\ ibag' = _add_records(ibag, <<bag>>).list
              /\ calls' = Append(calls, [op |-> "add_instrument_zone", args |-> z,
                                         raised |-> FALSE, result |-> 0])
    /\ UNCHANGED <<phdr, pbag, pmod, pgen, inst, shdr, smpl>>

\* Lines 617-626: _convert_sample_to_16bit_signed.  Sixteen-bit signed data is
\* returned as it is; an eight-bit sample b becomes the two bytes 0 and
\* (b - sign_delta) & 0xff; anything else raises ValueError.
RECURSIVE WidenSamples(_, _)
WidenSamples(sample_data, sign_delta) ==
    IF sample_data = <<>> THEN <<>>
    ELSE <<0, (Head(sample_data) - sign_delta) % 256>>
            \o WidenSamples(Tail(sample_data), sign_delta)

_convert_sample_to_16bit_signed(sample_data, bits, signed) ==
    IF bits = 16
    THEN IF signed THEN [raised |-> FALSE, data |-> sample_data]
                   ELSE [raised |-> TRUE, data |-> <<>>]
    ELSE IF bits = 8
    THEN [raised |-> FALSE,
          data |-> WidenSamples(sample_data, IF signed THEN 0 ELSE 128)]
    ELSE [raised |-> TRUE, data |-> <<>>]

\* Line 430: the zero valued sample data points that follow every sample.
GuardFrames == 46

\* Two zero bytes short of n.
ZeroBytesButOneFrame(n) == [i \in 1..(n - 2) |-> 0]

\* n zero bytes.
ZeroBytes(n) == [i \in 1..n |-> 0]

\* The arguments drawn for add_sample: an eight-bit unsigned sample as the
\* extractor passes it (wad.py lines 420-421), a sixteen-bit signed sample of
\* two whole frames, an eight-bit signed sample, a sample with no data (it
\* fails the assertion of line 419) and sixteen-bit unsigned data (ValueError).
SampleArguments ==
    {[name |-> "I5", data |-> <<0, 128, 255>>, start_loop |-> 0, end_loop |-> 0,
      sample_rate |-> 22050, original_pitch |-> 60, pitch_correction |-> 0,
      sample_type |-> 1, bits_per_sample |-> 8, signed |-> FALSE],
     [name |-> "P36", data |-> <<1, 2, 3, 4>>, start_loop |-> 1, end_loop |-> 2,
      sample_rate |-> 22050, original_pitch |-> 36, pitch_correction |-> 0,
      sample_type |-> 1, bits_per_sample |-> 16, signed |-> TRUE],
     [name |-> "I5", data |-> <<5>>, start_loop |-> 0, end_loop |-> 1,
      sample_rate |-> 400, original_pitch |-> 255, pitch_correction |-> -128,
      sample_type |-> 1, bits_per_sample |-> 8, signed |-> TRUE],
     [name |-> "I129", data |-> <<>>, start_loop |-> 0, end_loop |-> 0,
      sample_rate |-> 22050, original_pitch |-> 60, pitch_correction |-> 0,
      sample_type |-> 1, bits_per_sample |-> 8, signed |-> FALSE],
     [name |-> "P36", data |-> <<1, 2>>, start_loop |-> 0, end_loop |-> 1,
      sample_rate |-> 22050, original_pitch |-> 36, pitch_correction |-> 0,
      sample_type |-> 1, bits_per_sample |-> 16, signed |-> FALSE]}

\* The assertions of add_sample without those of lines 419-420 on the loop.
AddSampleAssertionsWithoutLoop(a) ==
    /\ 400 <= a.sample_rate /\ a.sample_rate <= 50000
    /\ (0 <= a.original_pitch /\ a.original_pitch <= 127) \/ a.original_pitch = 255
    /\ -128 <= a.pitch_correction /\ a.pitch_correction <= 127
    /\ a.bits_per_sample \in {8, 16}

\* Lines 419-424: the assertions of add_sample.
AddSampleAssertionsHold(a) ==
    /\ 0 <= a.start_loop /\ a.start_loop < Len(a.data)
    /\ 0 <= a.end_loop /\ a.end_loop <= Len(a.data)
    /\ 400 <= a.sample_rate /\ a.sample_rate <= 50000
    /\ (0 <= a.original_pitch /\ a.original_pitch <= 127) \/ a.original_pitch = 255
    /\ -128 <= a.pitch_correction /\ a.pitch_correction <= 127
    /\ a.bits_per_sample \in {8, 16}

\* Lines 415-433: add_sample(name, data, start_loop, end_loop, ...).
AddSample ==
    /\ Len(calls) < MaxCalls
    /\ \E a \in SampleArguments :
          LET converted ==
                  _convert_sample_to_16bit_signed(a.data, a.bits_per_sample, a.signed)
              start_index == Len(smpl) \div 2
              with_data == smpl \o converted.data
              end_index == Len(with_data) \div 2
              header == [name |-> a.name, start |-> start_index, end |-> end_index,
                         start_loop |-> start_index + a.start_loop,
                         end_loop |-> start_index + a.end_loop,
                         sample_rate |-> a.sample_rate,
                         original_pitch |-> a.original_pitch,
                         pitch_correction |-> a.pitch_correction,
                         sample_link |-> 0, sample_type |-> a.sample_type]
          IN  IF AddSampleAssertionsHold(a) /\ ~converted.raised
              THEN /\ smpl' = with_data \o ZeroBytes(2 * GuardFrames)
                   /\ shdr' = InsertBeforeLast(shdr, header)
                   /\ calls' = Append(calls, [op |-> "add_sample", args |-> a,
                                              raised |-> FALSE, result |-> Len(shdr') - 2])
              ELSE /\ calls' = Append(calls, [op |-> "add_sample", args |-> a,
                                              raised |-> TRUE, result |-> 0])
                   /\ UNCHANGED <<smpl, shdr>>
    /\ UNCHANGED <<phdr, pbag, pmod, pgen, inst, ibag, imod, igen>>

\* Lines 573-580: build() prepares the terminal records (the lists are then
\* packed into the bank it returns, lines 581-614).
Build ==
    /\ Len(calls) < MaxCalls
    /\ phdr' = SetLast(phdr, "preset_bag_index", LiveCount(pbag))
    /\ pbag' = SetLast(SetLast(pbag, "generator_index", LiveCount(pgen)),
                       "modulator_index", LiveCount(pmod))
    /\ inst' = SetLast(inst, "instrument_bag_index", LiveCount(ibag))
    /\ ibag' = SetLast(SetLast(ibag, "generator_index", LiveCount(igen)),
                       "modulator_index", LiveCount(imod))
    /\ calls' = Append(calls, [op |-> "build", args |-> <<>>,
                               raised |-> FALSE, result |-> 0])
    /\ UNCHANGED <<pmod, pgen, imod, igen, shdr, smpl>>

\* Lines 347-373: SoundFontBuilder().
InitBuilder ==
    /\ smpl = <<>>
    /\ phdr = <<TerminalPresetHeader>>
    /\ pbag = <<TerminalBag>>
    /\ pmod = <<TerminalModulator>>
    /\ pgen = <<TerminalGenerator>>
    /\ inst = <<TerminalInstrument>>
    /\ ibag = <<TerminalBag>>
    /\ imod = <<TerminalModulator>>
    /\ igen = <<TerminalGenerator>>
    /\ shdr = <<TerminalSample>>
    /\ calls = <<>>

\* No builder exists.
IdleBuilder ==
    /\ smpl = <<>>
    /\ phdr = <<>> /\ pbag = <<>> /\ pmod = <<>> /\ pgen = <<>>
    /\ inst = <<>> /\ ibag = <<>> /\ imod = <<>> /\ igen = <<>>
    /\ shdr = <<>>
    /\ calls = <<>>

NextBuilder ==
    \/ AddPreset /\ UNCHANGED exceptBuilder
    \/ AddPresetZone /\ UNCHANGED exceptBuilder
    \/ AddInstrument /\ UNCHANGED exceptBuilder
    \/ AddInstrumentZone /\ UNCHANGED exceptBuilder
    \/ AddSample /\ UNCHANGED exceptBuilder
    \/ Build /\ UNCHANGED exceptBuilder

-----------------------------------------------------------------------------
(* GameMap.generate_dos_map and GameMap._fix_pushwall,                     *)
(* src/extractor/gamemap.py lines 77-184.  A plane is a function on the    *)
(* tile indexes 0..4095; an object is a record as _read_objects made it.   *)

_PLANE_COUNT == 2

_FLOOR_CODE_START == 108

_FLOOR_CODE_STOP == 143

_DOOR_CODE_START == 90

_DOOR_CODE_STOP == 97

_NORTH == 1

_SOUTH == 2

_WEST == 4

_EAST == 8

\* range(len(self._walls)): the indexes of a plane.
TileIndexes == 0..(_MAP_SIZE * _MAP_SIZE - 1)

\* Lines 96 and 124: x + y * _MAP_SIZE.
TileIndex(pos) == pos.x + pos.y * _MAP_SIZE

\* Lines 89-93: the plane 0 code of a raw wall code.
ConvertWallCodeKeepsFloorIndex(code) ==
    IF code >= 128 THEN code - 128 ELSE code

ConvertWallCode(code) ==
    IF code >= 128 THEN code - 128
    ELSE IF code < 64 THEN _FLOOR_CODE_START + _floorcodes[code]
    ELSE code

\* Lines 181-184 with the door codes counted as floor codes.
IsFloorOrDoorCode(code) == _DOOR_CODE_START <= code /\ code <= _FLOOR_CODE_STOP

\* Lines 181-184.
_is_dos_floor_code(code) == _FLOOR_CODE_START <= code /\ code <= _FLOOR_CODE_STOP

\* Line 99: the test that sends an object code to plane 0.
IsDoorCodeAboveStart(code) == _DOOR_CODE_START < code /\ code <= _DOOR_CODE_STOP

IsDoorCode(code) == _DOOR_CODE_START <= code /\ code <= _DOOR_CODE_STOP

\* Lines 168-171: the position k steps (1 or 2) from the object along a
\* coordinate.
StepPositionFromObject(obj, move_coord_name, move_step, k) ==
    IF move_coord_name = "y"
    THEN [x |-> obj.x, y |-> obj.y + (k - 1) * move_step]
    ELSE [x |-> obj.x + (k - 1) * move_step, y |-> obj.y]

StepPosition(obj, move_coord_name, move_step, k) ==
    IF move_coord_name = "y"
    THEN [x |-> obj.x, y |-> obj.y + k * move_step]
    ELSE [x |-> obj.x + k * move_step, y |-> obj.y]

\* Lines 164-179.  The tests are made in the code's order; a tile index past
\* the end of the plane raises IndexError.
_is_valid_pushwall_direction(plane0, obj, move_coord_name, move_step) ==
    LET first == StepPosition(obj, move_coord_name, move_step, 1)
        last == StepPosition(obj, move_coord_name, move_step, 2)
        moved == IF move_coord_name = "y" THEN last.y ELSE last.x
    IN  IF ~(1 <= moved /\ moved < _MAP_SIZE - 1)
        THEN [raised |-> FALSE, value |-> FALSE]
        ELSE IF TileIndex(first) \notin TileIndexes
        THEN [raised |-> TRUE, value |-> FALSE]
        ELSE IF ~_is_dos_floor_code(plane0[TileIndex(first)])
        THEN [raised |-> FALSE, value |-> FALSE]
        ELSE IF TileIndex(last) \notin TileIndexes
        THEN [raised |-> TRUE, value |-> FALSE]
        ELSE [raised |-> FALSE, value |-> plane0[TileIndex(last)] = obj.wall[1]]

\* Lines 149-160: the names reported for a move_dir that is not one direction.
ReportedDirections(north, south, west, east) ==
    IF ~(north \/ south \/ west \/ east) THEN <<"none">>
    ELSE (IF north THEN <<"north">> ELSE <<>>)
         \o (IF south THEN <<"south">> ELSE <<>>)
         \o (IF west THEN <<"west">> ELSE <<>>)
         \o (IF east THEN <<"east">> ELSE <<>>)

\* Lines 112-162: _fix_pushwall on planes t.  The result is the planes as
\* the call leaves them, whether it raised, and the error it logged if any.
_fix_pushwall(t, obj) ==
    LET index == TileIndex(obj)
        plane0 == [t[1] EXCEPT ![index] = obj.wall[1]]
        north == _is_valid_pushwall_direction(plane0, obj, "y", -1)
        south == _is_valid_pushwall_direction(plane0, obj, "y", 1)
        west == _is_valid_pushwall_direction(plane0, obj, "x", -1)
        east == _is_valid_pushwall_direction(plane0, obj, "x", 1)
        move_dir == (IF north.value THEN _NORTH ELSE 0) + (IF south.value THEN _SOUTH ELSE 0)
                    + (IF west.value THEN _WEST ELSE 0) + (IF east.value THEN _EAST ELSE 0)
        quiet(p) == [tiles |-> <<p, t[2]>>, raised |-> FALSE, logged |-> <<>>]
    IN  IF ~DETECT_PUSHWALL_DIRECTION_WHEN_CONVERTING_TO_DOS THEN quiet(plane0)
        ELSE IF north.raised \/ south.raised \/ west.raised \/ east.raised
        THEN [tiles |-> <<plane0, t[2]>>, raised |-> TRUE, logged |-> <<>>]
        ELSE IF move_dir = _NORTH
        THEN quiet([plane0 EXCEPT ![index - _MAP_SIZE * 2] = plane0[index - _MAP_SIZE]])
        ELSE IF move_dir = _SOUTH
        THEN quiet([plane0 EXCEPT ![index + _MAP_SIZE * 2] = plane0[index + _MAP_SIZE]])
        ELSE IF move_dir = _WEST
        THEN quiet([plane0 EXCEPT ![index - 2] = plane0[index - 1]])
        ELSE IF move_dir = _EAST
        THEN quiet([plane0 EXCEPT ![index + 2] = plane0[index + 1]])
        ELSE [tiles |-> <<plane0, t[2]>>, raised |-> FALSE,
              logged |-> <<[x |-> obj.x, y |-> obj.y,
                            dirs |-> ReportedDirections(north.value, south.value,
                                                        west.value, east.value)]>>]

\* The maps drawn.  Every tile is raw code 0 (a floor) except a few tiles
\* that carry the other kinds of code (0x80 and above, 64..0x7F, the largest
\* floor index) and the tiles two steps from a pushwall in the directions of
\* a corridor, which carry the raw code of the pushwall's wall byte.
PushwallPositions == {[x |-> 10, y |-> 10], [x |-> 2, y |-> 10]}

\* The position two steps from a pushwall along a corridor.
CorridorEnd(p, direction) ==
    CASE direction = "north" -> [x |-> p.x, y |-> p.y - 2]
      [] direction = "south" -> [x |-> p.x, y |-> p.y + 2]
      [] direction = "west" -> [x |-> p.x - 2, y |-> p.y]
      [] direction = "east" -> [x |-> p.x + 2, y |-> p.y]

Corridors ==
    {{}, {"north"}, {"west"}, {"east"}, {"south", "west"},
     {"north", "south", "west", "east"}}

FixedRawCodes == (0 :> 70) @@ (1 :> 128) @@ (2 :> 63) @@ (3 :> 255) @@ (4 :> 64)
                 @@ (4094 :> 127) @@ (4095 :> 129)

RawWalls(corridor) ==
    LET ends == {TileIndex(CorridorEnd(p, d)) : p \in PushwallPositions, d \in corridor}
    IN  [i \in TileIndexes |->
            IF i \in DOMAIN FixedRawCodes THEN FixedRawCodes[i]
            ELSE IF i \in ends THEN 128 + 33
            ELSE 0]

\* The floor code tables drawn: floor index c has floor code c, or floor
\* index 0 has a code that takes it past _FLOOR_CODE_STOP.
FloorCodeTables ==
    {[c \in 0..63 |-> c], [c \in 0..63 |-> IF c = 0 THEN 36 ELSE c]}

\* The objects drawn: two pushwalls with wall byte 33 (the second has the
\* edge of the map two steps to its west), a door one step south of the
\* first pushwall, a plain object, and a door whose y takes its tile index
\* past the end of the planes.
MapObjects ==
    {[x |-> 10, y |-> 10, code |-> _PUSHWALL, wall |-> <<33>>],
     [x |-> 2, y |-> 10, code |-> _PUSHWALL, wall |-> <<33>>],
     [x |-> 10, y |-> 11, code |-> 90, wall |-> <<>>],
     [x |-> 10, y |-> 12, code |-> 89, wall |-> <<>>],
     [x |-> 10, y |-> 136, code |-> 97, wall |-> <<>>]}

\* Most objects on a map of the model.
MaxMapObjects == 2

\* Lines 85-93: the planes are made and the wall codes converted.
ConvertWalls ==
    /\ g_status = "ready"
    /\ tiles' = <<[i \in TileIndexes |-> ConvertWallCode(_walls[i])],
                  [i \in TileIndexes |-> 0]>>
    /\ g_status' = "placing"
    /\ UNCHANGED <<_walls, _floorcodes, _objects,
                   DETECT_PUSHWALL_DIRECTION_WHEN_CONVERTING_TO_DOS, placed, errors>>

\* Lines 95-106: one iteration of the loop that places the objects.
PlaceObject ==
    /\ g_status = "placing"
    /\ placed < Len(_objects)
    /\ LET obj == _objects[placed + 1]
           index == TileIndex(obj)
       IN  IF index \notin TileIndexes
           THEN /\ g_status' = "IndexError"
                /\ UNCHANGED <<tiles, placed, errors>>
           ELSE IF IsDoorCode(obj.code)
           THEN /\ tiles' = <<[tiles[1] EXCEPT ![index] = obj.code], tiles[2]>>
                /\ placed' = placed + 1
                /\ UNCHANGED <<errors, g_status>>
           ELSE LET with_object == <<tiles[1], [tiles[2] EXCEPT ![index] = obj.code]>>
                    fixed == _fix_pushwall(with_object, obj)
                IN  IF obj.code # _PUSHWALL
                    THEN /\ tiles' = with_object
                         /\ placed' = placed + 1
                         /\ UNCHANGED <<errors, g_status>>
                    ELSE /\ tiles' = fixed.tiles
                         /\ errors' = errors \o fixed.logged
                         /\ IF fixed.raised
                            THEN g_status' = "IndexError" /\ UNCHANGED placed
                            ELSE placed' = placed + 1 /\ UNCHANGED g_status
    /\ UNCHANGED <<_walls, _floorcodes, _objects,
                   DETECT_PUSHWALL_DIRECTION_WHEN_CONVERTING_TO_DOS>>

\* Lines 107-110: every object is placed and the map is returned.
ReturnDosMap ==
    /\ g_status = "placing"
    /\ placed = Len(_objects)
    /\ g_status' = "returned"
    /\ UNCHANGED <<_walls, _floorcodes, _objects,
                   DETECT_PUSHWALL_DIRECTION_WHEN_CONVERTING_TO_DOS, tiles, placed, errors>>

InitDosMap ==
    /\ _walls \in {RawWalls(c) : c \in Corridors}
    /\ _floorcodes \in FloorCodeTables
    /\ _objects \in SeqsUpTo(MapObjects, MaxMapObjects)
    /\ DETECT_PUSHWALL_DIRECTION_WHEN_CONVERTING_TO_DOS \in BOOLEAN
    /\ tiles = <<>>
    /\ placed = 0
    /\ errors = <<>>
    /\ g_status = "ready"

\* No map is being converted.
IdleDosMap ==
    /\ _walls = <<>>
    /\ _floorcodes = <<>>
    /\ _objects = <<>>
    /\ DETECT_PUSHWALL_DIRECTION_WHEN_CONVERTING_TO_DOS = FALSE
    /\ tiles = <<>>
    /\ placed = 0
    /\ errors = <<>>
    /\ g_status = "idle"

NextDosMap ==
    \/ ConvertWalls /\ UNCHANGED exceptDosMap
    \/ PlaceObject /\ UNCHANGED exceptDosMap
    \/ ReturnDosMap /\ UNCHANGED exceptDosMap

-----------------------------------------------------------------------------
(* main.extract_files, src/main.py lines 11-32, with the directory lookups *)
(* of WADFile (src/extractor/wad.py lines 135-148).  save_lump is the      *)
(* record of its call.                                                     *)

\* The directory drawn: a map, an instrument and a wall.
Directory ==
    <<[name |-> "MAP01", type |-> "Map"],
      [name |-> "I5", type |-> "Instrument"],
      [name |-> "WALL00", type |-> "Wall"]>>

\* The names drawn for a request: the three of the directory and one that is
\* not in it.
RequestNames == {"MAP01", "I5", "WALL00", "NOPE"}

\* Most names in a request.
MaxRequests == 3

\* The type names drawn for lump_type.
TypeNames == {"Instrument", "map"}

\* str.casefold of the type names of the model.
Casefold(name) ==
    CASE name = "Instrument" -> "instrument"
      [] name = "Map" -> "map"
      [] name = "Wall" -> "wall"
      [] OTHER -> name

\* wad.py lines 135-136: the first index with that name, or -1.
get_lump_index(name) ==
    LET found == {index \in 0..(Len(_lumps) - 1) : _lumps[index + 1].name = name}
    IN  IF found = {} THEN -1 ELSE CHOOSE index \in found : \A j \in found : index <= j

\* The names of a sequence of lumps, in order.
LumpNames(seq) == [i \in DOMAIN seq |-> seq[i].name]

\* The elements of a sequence that pass a test, in order.
RECURSIVE OfType(_, _)
OfType(seq, type_name) ==
    IF seq = <<>> THEN <<>>
    ELSE (IF Casefold(Head(seq).type) = Casefold(type_name) THEN <<Head(seq)>> ELSE <<>>)
         \o OfType(Tail(seq), type_name)

\* wad.py lines 143-148.
get_all_lump_names == LumpNames(_lumps)

get_lumps_of_type(type_name) == LumpNames(OfType(_lumps, type_name))

\* Lines 13-23: the file is opened and the names to extract are settled.
StartExtract ==
    /\ e_status = "ready"
    /\ entries' = IF lumps = <<>>
                  THEN IF lump_type # <<>> THEN get_lumps_of_type(lump_type[1])
                       ELSE get_all_lump_names
                  ELSE lumps[1]
    /\ e_status' = "looping"
    /\ UNCHANGED <<_lumps, lumps, lump_type, entry, saved, logged, soundfont_saved>>

\* Lines 24-29: one iteration of the loop over the entries.
ExtractEntry ==
    /\ e_status = "looping"
    /\ entry < Len(entries)
    /\ LET name == entries[entry + 1]
           entry_index == get_lump_index(name)
       IN  IF entry_index < 0
           THEN /\ logged' = Append(logged, name)
                /\ e_status' = "after loop"      \* break
                /\ entry' = entry + 1
                /\ UNCHANGED saved
           ELSE /\ saved' = Append(saved, _lumps[entry_index + 1].name)
                /\ entry' = entry + 1
                /\ UNCHANGED <<logged, e_status>>
    /\ UNCHANGED <<_lumps, lumps, lump_type, entries, soundfont_saved>>

\* Line 24: the entries are exhausted.
LeaveLoop ==
    /\ e_status = "looping"
    /\ entry >= Len(entries)
    /\ e_status' = "after loop"
    /\ UNCHANGED <<_lumps, lumps, lump_type, entries, entry, saved, logged, soundfont_saved>>

\* Lines 30-32: the combined map file and the soundfont.
FinishExtract ==
    /\ e_status = "after loop"
    /\ soundfont_saved' = (lump_type = <<>> \/ lump_type = <<"Instrument">>)
    /\ e_status' = "done"
    /\ UNCHANGED <<_lumps, lumps, lump_type, entries, entry, saved, logged>>

InitExtract ==
    /\ _lumps = Directory
    /\ lumps \in {<<>>} \cup {<<names>> : names \in SeqsUpTo(RequestNames, MaxRequests)}
    /\ lump_type \in {<<>>} \cup {<<t>> : t \in TypeNames}
    /\ entries = <<>>
    /\ entry = 0
    /\ saved = <<>>
    /\ logged = <<>>
    /\ soundfont_saved = FALSE
    /\ e_status = "ready"

\* extract_files is not running.
IdleExtract ==
    /\ _lumps = <<>>
    /\ lumps = <<>>
    /\ lump_type = <<>>
    /\ entries = <<>>
    /\ entry = 0
    /\ saved = <<>>
    /\ logged = <<>>
    /\ soundfont_saved = FALSE
    /\ e_status = "idle"

NextExtract ==
    \/ StartExtract /\ UNCHANGED exceptExtract
    \/ ExtractEntry /\ UNCHANGED exceptExtract
    \/ LeaveLoop /\ UNCHANGED exceptExtract
    \/ FinishExtract /\ UNCHANGED exceptExtract

-----------------------------------------------------------------------------
(* GameMap.save_as_wdc_map_file, src/extractor/gamemap.py lines 186-204.   *)
(* A name is the sequence of the code points of its characters.            *)

\* Line 197: the map name length written to the header and padded to.
MapNameLength == 16

\* Line 194: b'WDC3.1'.
WdcMagic == <<87, 68, 67, 51, 46, 49>>

\* Line 200: bytes(..., encoding="ascii") raises UnicodeEncodeError for a
\* character above 127, and else gives one byte per character, its code.
IsAscii(name) == \A i \in DOMAIN name : name[i] < 128

\* Line 200: m['name'] + '\00' * (16 - len(m['name'])); a count below one
\* gives the empty string.
PaddedName(name) == name \o ZeroBytes(MapNameLength - Len(name))

\* struct.pack('<{}H') with the high byte of each tile first.
PackTilesBigEndian(plane) ==
    [i \in 1..(2 * Len(plane)) |->
        IF i % 2 = 1 THEN plane[(i + 1) \div 2] \div 256 ELSE plane[i \div 2] % 256]

\* Line 204: struct.pack('<{}H'.format(len(plane)), *plane), for tiles the
\* format takes: two bytes per tile, the low byte first.
PackTiles(plane) ==
    [i \in 1..(2 * Len(plane)) |->
        IF i % 2 = 1 THEN plane[(i + 1) \div 2] % 256 ELSE plane[i \div 2] \div 256]

\* Line 204: struct.error for a tile that is no unsigned 16-bit number.
PlaneIsPackable(plane) == \A i \in DOMAIN plane : 0 <= plane[i] /\ plane[i] <= 65535

\* A plane of tiles a * i + b at index i.
TilePattern(a, b) == [i \in 1..(_MAP_SIZE * _MAP_SIZE) |-> (a * (i - 1) + b) % 65536]

\* The maps drawn: names of 5, 0 and 16 characters with planes whose tiles
\* take both bytes, and three that the format does not hold: a name of 17
\* characters, a name with a character above 127 and a tile of 65536.
MapPool ==
    {[name |-> <<77, 65, 80, 48, 49>>, tiles |-> <<TilePattern(17, 1), TilePattern(1, 300)>>],
     [name |-> <<>>, tiles |-> <<TilePattern(0, 0), TilePattern(0, 65535)>>],
     [name |-> <<65, 66, 67, 68, 69, 70, 71, 72, 73, 74, 75, 76, 77, 78, 79, 80>>,
      tiles |-> <<TilePattern(256, 108), TilePattern(0, 89)>>],
     [name |-> <<77, 65, 80, 48, 50>>, tiles |-> <<TilePattern(1, 300), TilePattern(17, 1)>>],
     [name |-> <<65, 66, 67, 68, 69, 70, 71, 72, 73, 74, 75, 76, 77, 78, 79, 80, 81>>,
      tiles |-> <<TilePattern(0, 1), TilePattern(0, 2)>>],
     [name |-> <<77, 233>>, tiles |-> <<TilePattern(0, 1), TilePattern(0, 2)>>],
     [name |-> <<77>>,
      tiles |-> <<TilePattern(0, 1), [TilePattern(0, 2) EXCEPT ![2] = 65536]>>]}

\* Most maps in one file.
MaxMaps == 2

\* Lines 193-197: the file is opened and the header written.
WriteWdcHeader ==
    /\ s_status = "ready"
    /\ wdc_file' = WdcMagic \o write_int(Len(maps)) \o write_short(_PLANE_COUNT)
                       \o write_short(MapNameLength)
    /\ s_status' = "writing"
    /\ UNCHANGED <<maps, map_position>>

\* Lines 198-204: one iteration of the loop over the maps.
WriteWdcMap ==
    /\ s_status = "writing"
    /\ map_position < Len(maps)
    /\ LET m == maps[map_position + 1]
           sizes == write_short(_MAP_SIZE) \o write_short(_MAP_SIZE)
       IN  IF ~IsAscii(m.name)
           THEN /\ s_status' = "UnicodeEncodeError"
                /\ UNCHANGED <<wdc_file, map_position>>
           ELSE IF ~PlaneIsPackable(m.tiles[1])
           THEN /\ s_status' = "struct.error"
                /\ wdc_file' = wdc_file \o PaddedName(m.name) \o sizes
                /\ UNCHANGED map_position
           ELSE IF ~PlaneIsPackable(m.tiles[2])
           THEN /\ s_status' = "struct.error"
                /\ wdc_file' = wdc_file \o PaddedName(m.name) \o sizes
                                   \o PackTiles(m.tiles[1])
                /\ UNCHANGED map_position
           ELSE /\ wdc_file' = wdc_file \o PaddedName(m.name) \o sizes
                                   \o PackTiles(m.tiles[1]) \o PackTiles(m.tiles[2])
                /\ map_position' = map_position + 1
                /\ UNCHANGED s_status
    /\ UNCHANGED maps

\* Line 193: the with block ends after the last map.
CloseWdcFile ==
    /\ s_status = "writing"
    /\ map_position = Len(maps)
    /\ s_status' = "closed"
    /\ UNCHANGED <<maps, wdc_file, map_position>>

InitWdc ==
    /\ maps \in SeqsUpTo(MapPool, MaxMaps)
    /\ wdc_file = <<>>
    /\ map_position = 0
    /\ s_status = "ready"

\* save_as_wdc_map_file is not running.
IdleWdc ==
    /\ maps = <<>>
    /\ wdc_file = <<>>
    /\ map_position = 0
    /\ s_status = "idle"

NextWdc ==
    \/ WriteWdcHeader /\ UNCHANGED exceptWdc
    \/ WriteWdcMap /\ UNCHANGED exceptWdc
    \/ CloseWdcFile /\ UNCHANGED exceptWdc

-----------------------------------------------------------------------------
(* SoundFontBuilder.create_prefix_generators and                           *)
(* create_instrument_generators, src/extractor/soundfont.py lines 435-562, *)
(* with _create_optional_generators and _add_generators (lines 629-685).   *)
(* None is the empty tuple and a value v that is given is <<v>>; the       *)
(* keyword arguments given are a function from their names.                *)

\* Lines 292-302: AmountType(amount) of a pair, struct.pack("<BB", low, high).
AmountOfPair(pair) == <<pair[1], pair[2]>>

\* Lines 292-302: AmountType(amount) of a number, "<h" or "<H".
AmountOfNumber(value) == LittleEndian(value, 2)

\* Lines 641-677: the generators of either kind of zone, with the name of the
\* argument and the least and the greatest value allowed.
GeneralGenerators ==
    <<<<5, "mod_lfo_to_pitch", -12000, 12000>>, <<6, "vib_lfo_to_pitch", -12000, 12000>>,
      <<7, "mod_env_to_pitch", -12000, 12000>>, <<8, "initial_filter_fc", 1500, 13500>>,
      <<9, "initial_filter_q", 0, 960>>, <<10, "mod_lfo_to_filter_fc", -12000, 12000>>,
      <<11, "mod_env_to_filter_fc", -12000, 12000>>, <<13, "mod_lfo_to_volume", -960, 960>>,
      <<15, "chorus_effects_send", 0, 1000>>, <<16, "reverb_effects_send", 0, 1000>>,
      <<17, "pan", -500, 500>>, <<21, "delay_mod_lfo", -12000, 5000>>,
      <<22, "freq_mod_lfo", -16000, 4500>>, <<23, "delay_vib_lfo", -12000, 5000>>,
      <<24, "freq_vib_lfo", -16000, 4500>>, <<25, "delay_mod_env", -12000, 5000>>,
      <<26, "attack_mod_env", -12000, 8000>>, <<27, "hold_mod_env", -12000, 5000>>,
      <<28, "decay_mod_env", -12000, 8000>>, <<29, "sustain_mod_env", 0, 1000>>,
      <<30, "release_mod_env", -12000, 8000>>, <<31, "keynum_to_mod_env_hold", -1200, 1200>>,
      <<32, "keynum_to_mod_env_decay", -1200, 1200>>, <<33, "delay_vol_env", -12000, 5000>>,
      <<34, "attack_vol_env", -12000, 8000>>, <<35, "hold_vol_env", -12000, 5000>>,
      <<36, "decay_vol_env", -12000, 8000>>, <<37, "sustain_vol_env", 0, 1440>>,
      <<38, "release_vol_env", -12000, 8000>>, <<39, "keynum_to_vol_env_hold", -1200, 1200>>,
      <<40, "keynum_to_vol_env_decay", -1200, 1200>>, <<48, "initial_attenuation", 0, 1440>>,
      <<51, "coarse_tune", -120, 120>>, <<52, "fine_tune", -99, 99>>,
      <<56, "scale_tuning", 0, 1200>>>>

\* Lines 528-537: the address offsets of an instrument zone, allowed between
\* the start of the sample and its end less one.
AddressGenerators(sample_start, sample_end) ==
    <<<<0, "start_addrs_offset", sample_start, sample_end>>,
      <<1, "end_addrs_offset", sample_start, sample_end>>,
      <<2, "startloop_addrs_offset", sample_start, sample_end>>,
      <<3, "endloop_addrs_offset", sample_start, sample_end>>,
      <<4, "start_addrs_coarse_offset", sample_start, sample_end>>,
      <<12, "end_addrs_coarse_offset", sample_start, sample_end>>,
      <<45, "startloop_addrs_coarse_offset", sample_start, sample_end>>,
      <<50, "endloop_addrs_coarse_offset", sample_start, sample_end>>>>

\* Lines 538-544: the other generators of an instrument zone only.
InstrumentOnlyGenerators ==
    <<<<46, "keynum", 0, 127>>, <<47, "velocity", 0, 127>>, <<54, "sample_modes", 0, 3>>,
      <<57, "exclusive_class", 1, 127>>, <<58, "overriding_root_key", 0, 127>>>>

\* Lines 680-685: _add_generators, with the list it appends to and whether
\* an assertion failed.
RECURSIVE _add_generators(_, _, _)
_add_generators(generator_list, generators_to_add, values) ==
    IF generators_to_add = <<>> THEN [raised |-> FALSE, list |-> generator_list]
    ELSE LET generator_info == Head(generators_to_add)
             name == generator_info[2]
         IN  IF name \notin DOMAIN values
             THEN _add_generators(generator_list, Tail(generators_to_add), values)
             ELSE IF ~(generator_info[3] <= values[name] /\ values[name] <= generator_info[4])
             THEN [raised |-> TRUE, list |-> generator_list]
             ELSE _add_generators(
                      Append(generator_list,
                             [operator |-> generator_info[1],
                              amount |-> AmountOfNumber(values[name])]),
                      Tail(generators_to_add), values)

\* Lines 629-678.
_create_optional_generators(values) == _add_generators(<<>>, GeneralGenerators, values)

\* A range is two numbers of 0..127 (the assertions of lines 462 and 465).
RangeIsLegal(range) ==
    /\ 0 <= range[1] /\ range[1] <= 127
    /\ 0 <= range[2] /\ range[2] <= 127

\* Lines 459-466 without lines 459-460: no key range is supplied.
RangeGeneratorsWithoutDefault(key_range, vel_range) ==
    IF key_range # <<>> /\ ~RangeIsLegal(key_range[1])
    THEN [raised |-> TRUE, list |-> <<>>]
    ELSE IF vel_range # <<>> /\ ~RangeIsLegal(vel_range[1])
    THEN [raised |-> TRUE, list |-> <<>>]
    ELSE [raised |-> FALSE,
          list |-> (IF key_range # <<>>
                    THEN <<[operator |-> 43, amount |-> AmountOfPair(key_range[1])]>>
                    ELSE <<>>)
                   \o (IF vel_range # <<>>
                       THEN <<[operator |-> 44, amount |-> AmountOfPair(vel_range[1])]>>
                       ELSE <<>>)]

\* Lines 459-466 and 516-523: the key range and the velocity range.
RangeGenerators(key_range, vel_range) ==
    RangeGeneratorsWithoutDefault(
        IF vel_range # <<>> /\ key_range = <<>> THEN <<<<0, 127>>>> ELSE key_range,
        vel_range)

\* Lines 455-484.
create_prefix_generators(inst_list, instrument, key_range, vel_range, values) ==
    IF ~(instrument = <<>> \/ (0 <= instrument[1] /\ instrument[1] < Len(inst_list) - 1))
    THEN [raised |-> TRUE, list |-> <<>>]
    ELSE LET ranges == RangeGenerators(key_range, vel_range)
             optional == _create_optional_generators(values)
         IN  IF ranges.raised \/ optional.raised THEN [raised |-> TRUE, list |-> <<>>]
             ELSE [raised |-> FALSE,
                   list |-> ranges.list \o optional.list
                            \o (IF instrument # <<>>
                                THEN <<[operator |-> 41,
                                        amount |-> AmountOfNumber(instrument[1])]>>
                                ELSE <<>>)]

\* Lines 512-562.
create_instrument_generators(shdr_list, sample_id, key_range, vel_range, instrument_values, values) ==
    IF ~(sample_id = <<>> \/ (0 <= sample_id[1] /\ sample_id[1] < Len(shdr_list) - 1))
    THEN [raised |-> TRUE, list |-> <<>>]
    ELSE LET ranges == RangeGenerators(key_range, vel_range)
             addresses ==
                 IF ranges.raised \/ sample_id = <<>> THEN ranges
                 ELSE _add_generators(
                          ranges.list,
                          AddressGenerators(shdr_list[sample_id[1] + 1].start,
                                            shdr_list[sample_id[1] + 1].end - 1),
                          instrument_values)
             others ==
                 IF addresses.raised THEN addresses
                 ELSE _add_generators(addresses.list, InstrumentOnlyGenerators,
                                      instrument_values)
             optional == _create_optional_generators(values)
         IN  IF others.raised \/ optional.raised THEN [raised |-> TRUE, list |-> <<>>]
             ELSE [raised |-> FALSE,
                   list |-> others.list \o optional.list
                            \o (IF sample_id # <<>>
                                THEN <<[operator |-> 53,
                                        amount |-> AmountOfNumber(sample_id[1])]>>
                                ELSE <<>>)]

\* The builder the generators are made for: two instruments and two samples,
\* of frames 0..2 and 49..50, each list with its terminal record.
ZoneInstruments ==
    <<[name |-> "I5", instrument_bag_index |-> 0],
      [name |-> "P36", instrument_bag_index |-> 1], TerminalInstrument>>

ZoneSamples ==
    <<[TerminalSample EXCEPT !.name = "I5", !.end = 3, !.sample_rate = 22050],
      [TerminalSample EXCEPT !.name = "P36", !.start = 49, !.end = 51,
                             !.sample_rate = 22050],
      TerminalSample>>

\* The zones drawn: the global zone, the indexes 0 and 1, and one past the
\* last record.
ZoneTargets == {<<>>, <<0>>, <<1>>, <<2>>}

\* The ranges drawn: none, the full range, one key, and one out of range.
ZoneRanges == {<<>>, <<<<0, 127>>>>, <<<<36, 36>>>>, <<<<0, 128>>>>}

\* The general keyword arguments drawn: none, a pan, a tuning that packs as
\* a negative number with an attenuation, and a pan out of range.
GeneralValues ==
    {<<>>, [n \in {"pan"} |-> 0],
     [n \in {"coarse_tune", "initial_attenuation"} |->
         IF n = "coarse_tune" THEN -12 ELSE 100],
     [n \in {"pan"} |-> 501]}

\* The instrument-only keyword arguments drawn: none, a loop mode with a root
\* key, and an address offset of 50 (within the second sample only).
InstrumentValues ==
    {<<>>,
     [n \in {"sample_modes", "overriding_root_key"} |->
         IF n = "sample_modes" THEN 1 ELSE 60],
     [n \in {"start_addrs_offset"} |-> 50]}

\* Lines 435-484: create_prefix_generators(instrument, ...).
CreatePrefixGenerators ==
    /\ z_status = "ready"
    /\ LET a == zone_arguments
           created == create_prefix_generators(a.inst, a.target, a.key_range,
                                               a.vel_range, a.values)
       IN  /\ generators' = created.list
           /\ z_status' = IF created.raised THEN "AssertionError" ELSE "prefix returned"
    /\ UNCHANGED zone_arguments

\* Lines 486-562: create_instrument_generators(sample_id, ...).
CreateInstrumentGenerators ==
    /\ z_status = "ready"
    /\ LET a == zone_arguments
           created == create_instrument_generators(a.shdr, a.target, a.key_range,
                                                   a.vel_range, a.instrument_values,
                                                   a.values)
       IN  /\ generators' = created.list
           /\ z_status' = IF created.raised THEN "AssertionError"
                          ELSE "instrument returned"
    /\ UNCHANGED zone_arguments

InitZone ==
    /\ zone_arguments \in
           [inst : {ZoneInstruments}, shdr : {ZoneSamples}, target : ZoneTargets,
            key_range : ZoneRanges, vel_range : ZoneRanges,
            values : GeneralValues, instrument_values : InstrumentValues]
    /\ generators = <<>>
    /\ z_status = "ready"

\* Neither function is running.
IdleZone ==
    /\ zone_arguments = <<>>
    /\ generators = <<>>
    /\ z_status = "idle"

NextZone ==
    \/ CreatePrefixGenerators /\ UNCHANGED exceptZone
    \/ CreateInstrumentGenerators /\ UNCHANGED exceptZone


-----------------------------------------------------------------------------
(* WADFile.save_instruments_to_soundfont, src/extractor/wad.py lines       *)
(* 404-468.  A name is the sequence of its characters; the builder is a    *)
(* record of the lists of SoundFontBuilder.                                *)

\* Lines 347-373: SoundFontBuilder().
NewBuilder ==
    [smpl |-> <<>>, phdr |-> <<TerminalPresetHeader>>, pbag |-> <<TerminalBag>>,
     pmod |-> <<TerminalModulator>>, pgen |-> <<TerminalGenerator>>,
     inst |-> <<TerminalInstrument>>, ibag |-> <<TerminalBag>>,
     imod |-> <<TerminalModulator>>, igen |-> <<TerminalGenerator>>,
     shdr |-> <<TerminalSample>>]

\* The decimal digits.
DigitValue(c) ==
    CASE c = "0" -> 0 [] c = "1" -> 1 [] c = "2" -> 2 [] c = "3" -> 3 [] c = "4" -> 4
      [] c = "5" -> 5 [] c = "6" -> 6 [] c = "7" -> 7 [] c = "8" -> 8 [] c = "9" -> 9
      [] OTHER -> -1

\* int(text) for a text of decimal digits, <<the number>>; <<>> stands for the
\* ValueError of an empty text or of a character that is no digit.
RECURSIVE ParseInt(_)
ParseInt(text) ==
    IF text = <<>> \/ \E i \in DOMAIN text : DigitValue(text[i]) < 0 THEN <<>>
    ELSE IF Len(text) = 1 THEN <<DigitValue(text[1])>>
    ELSE <<10 * ParseInt(SubSeq(text, 1, Len(text) - 1))[1] + DigitValue(text[Len(text)])>>

\* Line 413: one field of struct.unpack('>IIII', ...), for bytes below 2^31.
BigEndianField(bytes, at) ==
    ((bytes[at + 1] * 256 + bytes[at + 2]) * 256 + bytes[at + 3]) * 256 + bytes[at + 4]

\* Lines 407-408: the names that start with a letter, in directory order.
RECURSIVE NamesStartingWith(_, _)
NamesStartingWith(lump_list, letter) ==
    IF lump_list = <<>> THEN <<>>
    ELSE (IF Head(lump_list).name[1] = letter THEN <<Head(lump_list).name>> ELSE <<>>)
         \o NamesStartingWith(Tail(lump_list), letter)

melodic_instruments == NamesStartingWith(instrument_lumps, "I")

percussion_instruments == NamesStartingWith(instrument_lumps, "P")

\* Line 412: get_lump_by_name(name), the data of the first lump of that name.
RECURSIVE FirstNamed(_, _)
FirstNamed(lump_list, name) ==
    IF Head(lump_list).name = name THEN Head(lump_list).data
    ELSE FirstNamed(Tail(lump_list), name)

LumpData(name) == FirstNamed(instrument_lumps, name)

\* Lines 410-422: add_instrument_from_lump(name) on a builder: the exception
\* raised ("" for none), the builder, the two indexes and whether it loops.
add_instrument_from_lump(sf, name) ==
    LET lump_data == LumpData(name)
        failed(exception) ==
            [raised |-> exception, sf |-> sf, sample_index |-> 0,
             instrument_index |-> 0, loops |-> FALSE]
    IN  IF Len(lump_data) < 16 THEN failed("struct.error")
        ELSE
        LET no_loop == SubSeq(lump_data, 5, 8) = <<255, 255, 255, 255>>
            loop_offset == IF no_loop THEN 0 ELSE BigEndianField(lump_data, 4)
            loop_end == IF no_loop THEN 0 ELSE BigEndianField(lump_data, 8)
            pitch == BigEndianField(lump_data, 12)
            a == [name |-> name, data |-> SubSeq(lump_data, 17, Len(lump_data)),
                  start_loop |-> loop_offset, end_loop |-> loop_end,
                  sample_rate |-> 22050, original_pitch |-> pitch % 128,
                  pitch_correction |-> 0, sample_type |-> 1,
                  bits_per_sample |-> 8, signed |-> FALSE]
            converted == _convert_sample_to_16bit_signed(a.data, 8, FALSE)
            start_index == Len(sf.smpl) \div 2
            with_data == sf.smpl \o converted.data
            header == [name |-> name, start |-> start_index,
                       end |-> Len(with_data) \div 2,
                       start_loop |-> start_index + loop_offset,
                       end_loop |-> start_index + loop_end,
                       sample_rate |-> 22050, original_pitch |-> pitch % 128,
                       pitch_correction |-> 0, sample_link |-> 0, sample_type |-> 1]
            with_sample == InsertBeforeLast(sf.shdr, header)
            with_instrument ==
                InsertBeforeLast(sf.inst, [name |-> name,
                                           instrument_bag_index |-> Len(sf.ibag) - 1])
        IN  IF ~AddSampleAssertionsHold(a) THEN failed("AssertionError")
            ELSE [raised |-> "",
                  sf |-> [sf EXCEPT !.smpl = with_data \o ZeroBytes(2 * GuardFrames),
                                    !.shdr = with_sample, !.inst = with_instrument],
                  sample_index |-> Len(with_sample) - 2,
                  instrument_index |-> Len(with_instrument) - 2,
                  loops |-> loop_offset > 0]

\* Lines 408-413 of soundfont.py: add_instrument_zone(generator, ()).
WithInstrumentZone(sf, generator) ==
    LET gens == _add_records(sf.igen, generator)
        mods == _add_records(sf.imod, <<>>)
        bag == [generator_index |-> gens.index, modulator_index |-> mods.index]
    IN  [sf EXCEPT !.igen = gens.list, !.imod = mods.list,
                   !.ibag = _add_records(sf.ibag, <<bag>>).list]

\* Lines 396-401 of soundfont.py: add_preset_zone(generator, ()).
WithPresetZone(sf, generator) ==
    LET mods == _add_records(sf.pmod, <<>>)
        gens == _add_records(sf.pgen, generator)
        bag == [generator_index |-> gens.index, modulator_index |-> mods.index]
    IN  [sf EXCEPT !.pgen = gens.list, !.pmod = mods.list,
                   !.pbag = _add_records(sf.pbag, <<bag>>).list]

\* Lines 385-394 of soundfont.py: add_preset(name, preset, bank); <<>> stands
\* for the AssertionError.
WithPreset(sf, name, preset, bank) ==
    IF /\ 0 < Len(name) /\ Len(name) <= 20
       /\ 0 <= preset /\ preset <= 127
       /\ 0 <= bank /\ bank <= 128
    THEN <<[sf EXCEPT !.phdr = InsertBeforeLast(
                @, [name |-> name, preset |-> preset, bank |-> bank,
                    preset_bag_index |-> Len(sf.pbag) - 1])]>>
    ELSE <<>>

\* Lines 436-440 and 460-464: add_preset_zone(create_prefix_generators(
\* instrument_index), ()).
LinkedPresetZone(sf, instrument_index) ==
    LET prefix == create_prefix_generators(sf.inst, <<instrument_index>>, <<>>, <<>>, <<>>)
    IN  IF prefix.raised THEN [raised |-> "AssertionError", sf |-> sf]
        ELSE [raised |-> "", sf |-> WithPresetZone(sf, prefix.list)]

\* Lines 435-440: add_preset(lump_name, number, 0) and the preset zone.
PresetAndZone(sf, name, preset, instrument_index) ==
    LET with_preset == WithPreset(sf, name, preset, 0)
    IN  IF with_preset = <<>> THEN [raised |-> "AssertionError", sf |-> sf]
        ELSE LinkedPresetZone(with_preset[1], instrument_index)

\* Lines 429-440: the zones of a melodic instrument that is loaded: an
\* instrument zone over all keys, a preset of the number in its name less
\* one, and a preset zone.  The exception raised ("" for none) and the builder.
MelodicZones(sf, name, instrument) ==
    LET number == ParseInt(Tail(name))
        zone == create_instrument_generators(
                    sf.shdr, <<instrument.sample_index>>, <<<<0, 127>>>>, <<<<0, 127>>>>,
                    [n \in {"sample_modes"} |-> IF instrument.loops THEN 1 ELSE 0], <<>>)
    IN  IF zone.raised THEN [raised |-> "AssertionError", sf |-> sf]
        ELSE IF number = <<>> THEN [raised |-> "ValueError", sf |-> sf]
        ELSE PresetAndZone(WithInstrumentZone(sf, zone.list), name, number[1] - 1,
                           instrument.instrument_index)

\* Lines 447-464: the zones of a percussion instrument that is loaded: an
\* instrument zone on the key of the number in its name, with a release and
\* a root key, and a preset zone.
PercussionZones(sf, name, instrument) ==
    LET drum_note == ParseInt(Tail(name))
        zone == create_instrument_generators(
                    sf.shdr, <<instrument.sample_index>>,
                    <<<<drum_note[1], drum_note[1]>>>>, <<<<0, 127>>>>,
                    [n \in {"sample_modes", "overriding_root_key"} |->
                        IF n = "sample_modes" THEN (IF instrument.loops THEN 1 ELSE 0)
                        ELSE drum_note[1]],
                    [n \in {"release_vol_env"} |-> 1200])
    IN  IF drum_note = <<>> THEN [raised |-> "ValueError", sf |-> sf]
        ELSE IF zone.raised THEN [raised |-> "AssertionError", sf |-> sf]
        ELSE LinkedPresetZone(WithInstrumentZone(sf, zone.list),
                              instrument.instrument_index)

\* Sixteen bytes of header, the loop offset, the loop end and the pitch in
\* them, and the samples.
InstrumentData(loop_offset, loop_end, pitch, samples) ==
    <<0, 0, 0, Len(samples)>> \o loop_offset \o <<0, 0, 0, loop_end, 0, 0, 0, pitch>>
        \o samples

\* The lumps drawn: a melodic instrument without a loop, one with a loop and
\* a pitch above 127, a percussion instrument, and five that are rejected:
\* preset number -1, a name that is no number, a drum note of 200, a loop
\* offset past the data, and data shorter than the header.
InstrumentLumpPool ==
    {[name |-> <<"I", "5">>,
      data |-> InstrumentData(<<255, 255, 255, 255>>, 255, 60, <<0, 128, 255>>)],
     [name |-> <<"I", "7">>,
      data |-> InstrumentData(<<0, 0, 0, 1>>, 2, 188, <<1, 2, 3>>)],
     [name |-> <<"P", "3", "6">>,
      data |-> InstrumentData(<<255, 255, 255, 255>>, 255, 36, <<9, 8>>)],
     [name |-> <<"I", "0">>,
      data |-> InstrumentData(<<255, 255, 255, 255>>, 255, 60, <<7>>)],
     [name |-> <<"I", "X">>,
      data |-> InstrumentData(<<255, 255, 255, 255>>, 255, 60, <<7>>)],
     [name |-> <<"P", "2", "0", "0">>,
      data |-> InstrumentData(<<255, 255, 255, 255>>, 255, 60, <<7>>)],
     [name |-> <<"I", "9">>,
      data |-> InstrumentData(<<0, 0, 0, 5>>, 2, 60, <<1, 2, 3>>)],
     [name |-> <<"I", "8">>, data |-> <<0, 0, 0, 1>>]}

\* Most Instrument lumps in the directory.
MaxInstruments == 2

\* The file opened while the bank is still being put together.
MayOpenFileWhileBuilding == f_status \in {"melodic", "percussion", "built"}

\* The file may be opened: build() has returned.
MayOpenFile == f_status = "built"

\* Lines 405-408 and 424-425: the lists of names and the new builder.
StartSoundfont ==
    /\ f_status = "ready"
    /\ sf2' = NewBuilder
    /\ sf_position' = 0
    /\ f_status' = "melodic"
    /\ UNCHANGED <<instrument_lumps, loaded, sf2_data, sf2_file>>

\* Lines 428 and 447 (lines 410-422): add_instrument_from_lump(lump_name) in
\* either loop.  An exception ends the function, and the builder is lost
\* with it.
LoadInstrument ==
    /\ loaded = <<>>
    /\ \/ f_status = "melodic" /\ sf_position < Len(melodic_instruments)
       \/ f_status = "percussion" /\ sf_position < Len(percussion_instruments)
    /\ LET name == IF f_status = "melodic" THEN melodic_instruments[sf_position + 1]
                   ELSE percussion_instruments[sf_position + 1]
           added == add_instrument_from_lump(sf2, name)
       IN  IF added.raised # ""
           THEN /\ f_status' = added.raised
                /\ UNCHANGED <<sf2, loaded>>
           ELSE /\ sf2' = added.sf
                /\ loaded' = <<[sample_index |-> added.sample_index,
                                instrument_index |-> added.instrument_index,
                                loops |-> added.loops]>>
                /\ UNCHANGED f_status
    /\ UNCHANGED <<instrument_lumps, sf_position, sf2_data, sf2_file>>

\* Lines 429-440: the rest of an iteration of the loop over the melodic
\* instruments.
AddMelodicZones ==
    /\ f_status = "melodic"
    /\ loaded # <<>>
    /\ LET added == MelodicZones(sf2, melodic_instruments[sf_position + 1], loaded[1])
       IN  IF added.raised # ""
           THEN /\ f_status' = added.raised
                /\ UNCHANGED <<sf2, sf_position, loaded>>
           ELSE /\ sf2' = added.sf
                /\ sf_position' = sf_position + 1
                /\ loaded' = <<>>
                /\ UNCHANGED f_status
    /\ UNCHANGED <<instrument_lumps, sf2_data, sf2_file>>

\* Lines 442-445: the one preset of the percussion instruments, if any.
AddPercussionPreset ==
    /\ f_status = "melodic"
    /\ sf_position = Len(melodic_instruments)
    /\ percussion_instruments # <<>>
    /\ sf2' = WithPreset(sf2, <<"P", "E", "R", "C", "U", "S", "S", "I", "O", "N">>,
                         0, 128)[1]
    /\ sf_position' = 0
    /\ f_status' = "percussion"
    /\ UNCHANGED <<instrument_lumps, loaded, sf2_data, sf2_file>>

\* Lines 448-464: the rest of an iteration of the loop over the percussion
\* instruments.
AddPercussionZones ==
    /\ f_status = "percussion"
    /\ loaded # <<>>
    /\ LET added == PercussionZones(sf2, percussion_instruments[sf_position + 1],
                                    loaded[1])
       IN  IF added.raised # ""
           THEN /\ f_status' = added.raised
                /\ UNCHANGED <<sf2, sf_position, loaded>>
           ELSE /\ sf2' = added.sf
                /\ sf_position' = sf_position + 1
                /\ loaded' = <<>>
                /\ UNCHANGED f_status
    /\ UNCHANGED <<instrument_lumps, sf2_data, sf2_file>>

\* Line 466 (soundfont.py lines 573-614): build() prepares the terminal
\* records and returns the bank.
BuildBank ==
    /\ \/ f_status = "melodic" /\ sf_position = Len(melodic_instruments)
          /\ percussion_instruments = <<>>
       \/ f_status = "percussion" /\ sf_position = Len(percussion_instruments)
    /\ sf2' = [sf2 EXCEPT
                  !.phdr = SetLast(@, "preset_bag_index", LiveCount(sf2.pbag)),
                  !.pbag = SetLast(SetLast(@, "generator_index", LiveCount(sf2.pgen)),
                                   "modulator_index", LiveCount(sf2.pmod)),
                  !.inst = SetLast(@, "instrument_bag_index", LiveCount(sf2.ibag)),
                  !.ibag = SetLast(SetLast(@, "generator_index", LiveCount(sf2.igen)),
                                   "modulator_index", LiveCount(sf2.imod))]
    /\ sf2_data' = <<sf2'>>
    /\ f_status' = "built"
    /\ UNCHANGED <<instrument_lumps, sf_position, loaded, sf2_file>>

\* Line 467: open(..., "wb") creates the file, empty.
OpenSoundfontFile ==
    /\ MayOpenFile
    /\ sf2_file' = <<<<>>>>
    /\ f_status' = "open"
    /\ UNCHANGED <<instrument_lumps, sf_position, loaded, sf2, sf2_data>>

\* Line 468: f.write(sf2_data), and the file is closed.
WriteSoundfontFile ==
    /\ f_status = "open"
    /\ sf2_file' = sf2_data
    /\ f_status' = "written"
    /\ UNCHANGED <<instrument_lumps, sf_position, loaded, sf2, sf2_data>>

InitSoundfont ==
    /\ instrument_lumps \in SeqsUpTo(InstrumentLumpPool, MaxInstruments)
    /\ sf_position = 0
    /\ loaded = <<>>
    /\ sf2 = <<>>
    /\ sf2_data = <<>>
    /\ sf2_file = <<>>
    /\ f_status = "ready"

\* save_instruments_to_soundfont is not running.
IdleSoundfont ==
    /\ instrument_lumps = <<>>
    /\ sf_position = 0
    /\ loaded = <<>>
    /\ sf2 = <<>>
    /\ sf2_data = <<>>
    /\ sf2_file = <<>>
    /\ f_status = "idle"

NextSoundfont ==
    \/ StartSoundfont /\ UNCHANGED exceptSoundfont
    \/ LoadInstrument /\ UNCHANGED exceptSoundfont
    \/ AddMelodicZones /\ UNCHANGED exceptSoundfont
    \/ AddPercussionPreset /\ UNCHANGED exceptSoundfont
    \/ AddPercussionZones /\ UNCHANGED exceptSoundfont
    \/ BuildBank /\ UNCHANGED exceptSoundfont
    \/ OpenSoundfontFile /\ UNCHANGED exceptSoundfont
    \/ WriteSoundfontFile /\ UNCHANGED exceptSoundfont


-----------------------------------------------------------------------------
(* WADFile._load_directory and _determine_lump_type, src/extractor/wad.py  *)
(* lines 67-129.  An entry of the directory is its offset, its length, its *)
(* name as decoded on line 77 and the compression bit of line 76.          *)

\* str.startswith.
StartsWith(name, prefix) ==
    Len(name) >= Len(prefix) /\ SubSeq(name, 1, Len(prefix)) = prefix

\* Lines 90-129: the type, and the arguments returned with it (<<>> if none).
_determine_lump_type(name, offset, length, marker) ==
    LET typed(type, args) == [type |-> type, args |-> args]
    IN  IF offset = 0 /\ length = 0 THEN typed("Marker", <<>>)
        ELSE IF name = "MAPICONS" THEN typed("MapIcons", <<>>)
        ELSE IF StartsWith(name, "MAP") THEN typed("Map", <<>>)
        ELSE IF StartsWith(name, "SPR") \/ StartsWith(name, "WP")
        THEN typed("Sprite", <<TRUE>>)
        ELSE IF \/ StartsWith(name, "NUM")
                \/ name \in {"BLANK", "GKEY", "SKEY", "BLANKAMM", "FIRSTFAC"}
                \/ StartsWith(name, "AMMO") \/ StartsWith(name, "FACE")
        THEN typed("Sprite", <<>>)
        ELSE IF StartsWith(name, "WALL") THEN typed("Wall", <<>>)
        ELSE IF name = "RGBPALS" THEN typed("RGBPalette", <<>>)
        ELSE IF name \in {"CRYPALS", "BRIEFPAL"} THEN typed("CrYPalette", <<>>)
        ELSE IF name = "BRIEF" THEN typed("Image", <<"BRIEFPAL">>)
        ELSE IF \/ StartsWith(name, "I_") \/ StartsWith(name, "M_")
                \/ name \in {"SLIDBAR", "SLIDER", "CREDITS", "LOGO", "MTCAST"}
                \/ StartsWith(name, "CM_")
        THEN typed("Image", <<>>)
        ELSE IF name = "WOLFTITE" THEN typed("CrYImage", <<>>)
        ELSE IF name = "FONT8" THEN typed("Font", <<>>)
        ELSE IF StartsWith(name, "0") THEN typed("Song", <<>>)
        ELSE IF marker = <<"SOUNDS">> /\ name \notin {"STEPTABL"}
        THEN IF name \in {"ACHTUN18"} THEN typed("Sound", <<18000>>)
             ELSE IF StartsWith(name, "D_") \/ name \in {"KEY02"}
             THEN typed("Sound", <<22050>>)
             ELSE typed("Sound", <<11025>>)
        ELSE IF marker = <<"SONGEND">> /\ (StartsWith(name, "I") \/ StartsWith(name, "P"))
        THEN typed("Instrument", <<>>)
        ELSE typed("Unknown", <<>>)

\* The marker after a lump, were every lump one.
MarkerAfterAnyLump(marker, lump) == <<lump.name>>

\* Lines 86-87: the marker after a lump.
MarkerAfter(marker, lump) == IF lump.type = "Marker" THEN <<lump.name>> ELSE marker

\* The entries drawn: the markers SOUNDS and SONGEND and one named as a map,
\* a lump named SOUNDS that is no marker, and sounds, instruments, images, a
\* map, a song and the step table.
DirectoryEntries ==
    {[name |-> "SOUNDS", offset |-> 0, length |-> 0, is_compressed |-> FALSE],
     [name |-> "SONGEND", offset |-> 0, length |-> 0, is_compressed |-> FALSE],
     [name |-> "MAPEND", offset |-> 0, length |-> 0, is_compressed |-> FALSE],
     [name |-> "SOUNDS", offset |-> 64, length |-> 8, is_compressed |-> FALSE],
     [name |-> "D_GUN", offset |-> 64, length |-> 8, is_compressed |-> FALSE],
     [name |-> "I5", offset |-> 64, length |-> 8, is_compressed |-> FALSE],
     [name |-> "P36", offset |-> 0, length |-> 8, is_compressed |-> TRUE],
     [name |-> "I_LOGO", offset |-> 64, length |-> 8, is_compressed |-> TRUE],
     [name |-> "MAP01", offset |-> 64, length |-> 8, is_compressed |-> TRUE],
     [name |-> "0SONG", offset |-> 64, length |-> 0, is_compressed |-> FALSE],
     [name |-> "STEPTABL", offset |-> 64, length |-> 8, is_compressed |-> FALSE]}

\* Most entries in a directory.
MaxDirectory == 3

\* Lines 73-87: one iteration of the loop over the entries.
ReadDirectoryEntry ==
    /\ dir_status = "reading"
    /\ Len(typed_lumps) < Len(directory)
    /\ LET e == directory[Len(typed_lumps) + 1]
           determined == _determine_lump_type(e.name, e.offset, e.length, last_marker)
           lump == [name |-> e.name, offset |-> e.offset, length |-> e.length,
                    is_compressed |-> e.is_compressed, type |-> determined.type,
                    args |-> determined.args]
       IN  /\ typed_lumps' = Append(typed_lumps, lump)
           /\ last_marker' = MarkerAfter(last_marker, lump)
    /\ UNCHANGED <<directory, dir_status>>

\* Line 88: return lumps.
ReturnDirectory ==
    /\ dir_status = "reading"
    /\ Len(typed_lumps) = Len(directory)
    /\ dir_status' = "returned"
    /\ UNCHANGED <<directory, typed_lumps, last_marker>>

\* Lines 68-72: the count and the offset of the directory are read.
InitDirectory ==
    /\ directory \in SeqsUpTo(DirectoryEntries, MaxDirectory)
    /\ typed_lumps = <<>>
    /\ last_marker = <<>>
    /\ dir_status = "reading"

\* No directory is being read.
IdleDirectory ==
    /\ directory = <<>>
    /\ typed_lumps = <<>>
    /\ last_marker = <<>>
    /\ dir_status = "idle"

NextDirectory ==
    \/ ReadDirectoryEntry /\ UNCHANGED exceptDirectory
    \/ ReturnDirectory /\ UNCHANGED exceptDirectory


-----------------------------------------------------------------------------
(* WADFile.get_lump, src/extractor/wad.py lines 189-207, called by         *)
(* several threads at once.                                                *)

\* Most threads that call get_lump at once.
MaxThreads == 2

Threads == 1..MaxThreads

\* Line 59: self._file_offset, where the container begins in the file.
_file_offset == 2

\* The file: two bytes before the container, the signature (container
\* offsets 0..3), a compressed lump that decompresses to "AAAA" (4..9), a
\* lump stored as it is (10..12), a compressed lump that decompresses to
\* "BC" (13..17) and two bytes that stand for what follows (18..19).
WadBytes ==
    <<99, 99, 73, 87, 65, 68, 6, 65, 0, 18, 0, 0, 7, 8, 9, 4, 66, 67, 0, 0, 200, 201>>

\* The directories of that file: a marker, the first compressed lump, a
\* marker, the stored lump, the second compressed lump and, in the first
\* directory only, an entry after it.
LumpDirectories ==
    LET marker(name) == [name |-> name, offset |-> 0, length |-> 0, is_compressed |-> FALSE]
        first == [name |-> "A", offset |-> 4, length |-> 4, is_compressed |-> TRUE]
        stored == [name |-> "S", offset |-> 10, length |-> 3, is_compressed |-> FALSE]
        second == [name |-> "B", offset |-> 13, length |-> 2, is_compressed |-> TRUE]
        last == [name |-> "END", offset |-> 18, length |-> 0, is_compressed |-> FALSE]
    IN  {<<marker("M1"), first, marker("M2"), stored, second, last>>,
         <<marker("M1"), first, marker("M2"), stored, second>>}

\* The indexes the calls are made with.
CallIndexes == {0, 1, 3, 4}

\* f.read(count) at position pos: the bytes up to the end of the file when
\* count is negative, at most count bytes otherwise.
ReadBytes(pos, count) ==
    IF count < 0 \/ pos + count > Len(WadBytes)
    THEN SubSeq(WadBytes, pos + 1, Len(WadBytes))
    ELSE SubSeq(WadBytes, pos + 1, pos + count)

\* Lines 198-200 without the loop: the entry after the lump.
FollowingLump(table, index) == index + 1

\* Lines 198-200: next_index = index + 1; while not self._lumps[next_index].offset:
\* next_index += 1.  The result is Len(table), an index past the end, when
\* the loop runs off the list.
RECURSIVE SkipZeroOffsets(_, _)
SkipZeroOffsets(table, index) ==
    IF index + 1 >= Len(table) THEN Len(table)
    ELSE IF table[index + 2].offset # 0 THEN index + 1
    ELSE SkipZeroOffsets(table, index + 1)

\* Lines 159-187 as one function: the decompression of cd from input
\* position pos, with the output so far, the flag byte and the bits left.
RECURSIVE DecompressFrom(_, _, _, _, _)
DecompressFrom(cd, pos, out, flag, bits) ==
    IF bits = 0
    THEN IF pos >= Len(cd) THEN [raised |-> "IndexError", out |-> <<>>]
         ELSE DecompressFrom(cd, pos + 1, out, cd[pos + 1], 8)
    ELSE IF flag % 2 = 0
    THEN IF pos >= Len(cd) THEN [raised |-> "IndexError", out |-> <<>>]
         ELSE DecompressFrom(cd, pos + 1, Append(out, cd[pos + 1]), ShiftFlagByte(flag), bits - 1)
    ELSE IF pos + 1 >= Len(cd) THEN [raised |-> "IndexError", out |-> <<>>]
    ELSE LET offset == cd[pos + 1] * 16 + (cd[pos + 2] \div 16)
             outcome == PairOutcome(offset, cd[pos + 2] % 16)
             run == CopyRun(out, CopyStart(out, offset), (cd[pos + 2] % 16) + 1)
         IN  IF outcome = "finished" THEN [raised |-> "", out |-> out]
             ELSE IF outcome = "AssertionError" THEN [raised |-> outcome, out |-> <<>>]
             ELSE IF run.raised THEN [raised |-> "IndexError", out |-> <<>>]
             ELSE DecompressFrom(cd, pos + 2, run.out, ShiftFlagByte(flag), bits - 1)

_decompress(compressed) == DecompressFrom(compressed, 0, <<>>, 0, 0)

\* The reader a thread calls get_lump on: one for all, or one each.
ReaderOf(t) == IF sync = "own readers" THEN t ELSE 1

\* The callers' mutex around the reader, ignored.
HoldsReaderUnlocked(t) == TRUE

\* The callers' mutex around the reader: with it, a call runs while its
\* thread holds the mutex.
HoldsReader(t) == sync = "mutex" => mutex = t

CallEnded(t) == call_pc[t] \notin {"ready", "sought", "read"}

\* A caller takes the mutex before its call.
AcquireReader ==
    \E t \in Threads :
        /\ sync = "mutex"
        /\ call_pc[t] = "ready"
        /\ mutex = 0
        /\ mutex' = t
        /\ UNCHANGED <<wad_lumps, sync, cursor, call_index, call_data, call_result, call_pc>>

\* Lines 190-196: the lump is looked up, an empty lump is returned as None,
\* the assertions are made and the file is positioned.
SeekLump ==
    \E t \in Threads :
        /\ call_pc[t] = "ready"
        /\ HoldsReader(t)
        /\ IF call_index[t] >= Len(wad_lumps)
           THEN /\ call_pc' = [call_pc EXCEPT ![t] = "IndexError"]
                /\ UNCHANGED <<cursor, call_result>>
           ELSE LET lump == wad_lumps[call_index[t] + 1]
                IN  IF lump.length = 0
                    THEN /\ call_result' = [call_result EXCEPT ![t] =
                                               <<[name |-> lump.name, data |-> <<>>]>>]
                         /\ call_pc' = [call_pc EXCEPT ![t] = "returned"]
                         /\ UNCHANGED cursor
                    ELSE IF ~(lump.offset > 0 /\ lump.length > 0)
                    THEN /\ call_pc' = [call_pc EXCEPT ![t] = "AssertionError"]
                         /\ UNCHANGED <<cursor, call_result>>
                    ELSE /\ cursor' = [cursor EXCEPT ![ReaderOf(t)] = _file_offset + lump.offset]
                         /\ call_pc' = [call_pc EXCEPT ![t] = "sought"]
                         /\ UNCHANGED call_result
        /\ UNCHANGED <<wad_lumps, sync, mutex, call_index, call_data>>

\* Lines 197-202 and 205-207: the bytes are read where the file stands; a
\* lump that is not compressed is returned.
ReadLump ==
    \E t \in Threads :
        /\ call_pc[t] = "sought"
        /\ HoldsReader(t)
        /\ LET lump == wad_lumps[call_index[t] + 1]
               next_index == SkipZeroOffsets(wad_lumps, call_index[t])
               count == IF lump.is_compressed
                        THEN wad_lumps[next_index + 1].offset - lump.offset
                        ELSE lump.length
               bytes == ReadBytes(cursor[ReaderOf(t)], count)
           IN  IF lump.is_compressed /\ next_index >= Len(wad_lumps)
               THEN /\ call_pc' = [call_pc EXCEPT ![t] = "IndexError"]
                    /\ UNCHANGED <<cursor, call_data, call_result>>
               ELSE /\ cursor' = [cursor EXCEPT ![ReaderOf(t)] = @ + Len(bytes)]
                    /\ call_data' = [call_data EXCEPT ![t] = bytes]
                    /\ IF lump.is_compressed
                       THEN /\ call_pc' = [call_pc EXCEPT ![t] = "read"]
                            /\ UNCHANGED call_result
                       ELSE /\ call_pc' = [call_pc EXCEPT ![t] = "returned"]
                            /\ call_result' = [call_result EXCEPT ![t] =
                                                  <<[name |-> lump.name, data |-> <<bytes>>]>>]
        /\ UNCHANGED <<wad_lumps, sync, mutex, call_index>>

\* Lines 203-204 and 207: the bytes read are decompressed, the length is
\* asserted and the lump is returned.
DecompressLump ==
    \E t \in Threads :
        /\ call_pc[t] = "read"
        /\ HoldsReader(t)
        /\ LET lump == wad_lumps[call_index[t] + 1]
               decompressed == _decompress(call_data[t])
           IN  IF decompressed.raised # ""
               THEN /\ call_pc' = [call_pc EXCEPT ![t] = decompressed.raised]
                    /\ UNCHANGED call_result
               ELSE IF Len(decompressed.out) # lump.length
               THEN /\ call_pc' = [call_pc EXCEPT ![t] = "AssertionError"]
                    /\ UNCHANGED call_result
               ELSE /\ call_pc' = [call_pc EXCEPT ![t] = "returned"]
                    /\ call_result' = [call_result EXCEPT ![t] =
                                          <<[name |-> lump.name, data |-> <<decompressed.out>>]>>]
        /\ UNCHANGED <<wad_lumps, sync, cursor, mutex, call_index, call_data>>

\* A caller gives the mutex back after its call.
ReleaseReader ==
    \E t \in Threads :
        /\ mutex = t
        /\ CallEnded(t)
        /\ mutex' = 0
        /\ UNCHANGED <<wad_lumps, sync, cursor, call_index, call_data, call_result, call_pc>>

\* Lines 57-64: the readers are constructed (the file stands after the
\* directory) and every thread is about to call get_lump.
InitGetLump ==
    /\ wad_lumps \in LumpDirectories
    /\ sync \in {"none", "mutex", "own readers"}
    /\ cursor = [t \in Threads |-> Len(WadBytes)]
    /\ mutex = 0
    /\ call_index \in [Threads -> CallIndexes]
    /\ call_data = [t \in Threads |-> <<>>]
    /\ call_result = [t \in Threads |-> <<>>]
    /\ call_pc = [t \in Threads |-> "ready"]

\* No thread calls get_lump.
IdleGetLump ==
    /\ wad_lumps = <<>>
    /\ sync = "none"
    /\ cursor = <<>>
    /\ mutex = 0
    /\ call_index = <<>>
    /\ call_data = <<>>
    /\ call_result = <<>>
    /\ call_pc = <<>>

NextGetLump ==
    \/ AcquireReader /\ UNCHANGED exceptGetLump
    \/ SeekLump /\ UNCHANGED exceptGetLump
    \/ ReadLump /\ UNCHANGED exceptGetLump
    \/ DecompressLump /\ UNCHANGED exceptGetLump
    \/ ReleaseReader /\ UNCHANGED exceptGetLump


-----------------------------------------------------------------------------
(* WADFile.save_lump, _save_map and save_combined_map_file,                *)
(* src/extractor/wad.py lines 242-273, as extract_files calls them         *)
(* (src/main.py lines 24-30).  A file is its name, its extension and its   *)
(* content; a converted map is named after its lump and keeps the data it  *)
(* was converted from.                                                     *)

\* The lumps drawn: two maps, a map whose data GameMap cannot read, a sound
\* and a lump without data (get_lump returns None for it).
SavedLumpPool ==
    {[name |-> "MAP01", type |-> "Map", data |-> <<"walls 1">>],
     [name |-> "MAP02", type |-> "Map", data |-> <<"walls 2">>],
     [name |-> "MAP03", type |-> "Map", data |-> <<"short">>],
     [name |-> "SND1", type |-> "Sound", data |-> <<"pcm">>],
     [name |-> "MAP04", type |-> "Map", data |-> <<>>]}

\* Most save_lump calls of one extraction.
MaxSaved == 3

\* Lines 264-266: GameMap(name, data).generate_dos_map(), with the pushwall
\* detection switched on at line 263; it raises for data that is too short.
ConversionRaises(lump) == lump.data = <<"short">>

generate_dos_map(lump) == [name |-> lump.name, dos |-> lump.data[1], detect |-> TRUE]

\* Line 271 without the test of self._maps.
MayWriteCombinedWhenEmpty(pending) == COMBINE_MAPS_INTO_ONE_FILE

\* Line 271: if WADFile.COMBINE_MAPS_INTO_ONE_FILE and self._maps.
MayWriteCombined(pending) == COMBINE_MAPS_INTO_ONE_FILE /\ pending # <<>>

\* Lines 217-240: the extension of the file the save method of a type
\* writes; a map is handled by _save_map.
SavedExtension(type) == IF type = "Sound" THEN ".wav" ELSE ""

\* Lines 242-268: one call of save_lump from the loop of extract_files.
SaveLump ==
    /\ v_status = "saving"
    /\ save_index < Len(to_save)
    /\ LET lump == to_save[save_index + 1]
       IN  IF lump.data = <<>>
           THEN \* if data is None: return
                /\ save_index' = save_index + 1
                /\ UNCHANGED <<_maps, written, v_status>>
           ELSE IF DUMP_RAW_DATA
           THEN /\ written' = Append(written, [name |-> lump.name, ext |-> "",
                                               content |-> lump.data[1]])
                /\ save_index' = save_index + 1
                /\ UNCHANGED <<_maps, v_status>>
           ELSE IF lump.type # "Map"
           THEN /\ written' = Append(written, [name |-> lump.name,
                                               ext |-> SavedExtension(lump.type),
                                               content |-> <<"converted", lump.data[1]>>])
                /\ save_index' = save_index + 1
                /\ UNCHANGED <<_maps, v_status>>
           ELSE IF ConversionRaises(lump)
           THEN /\ v_status' = "error"
                /\ UNCHANGED <<save_index, _maps, written>>
           ELSE IF COMBINE_MAPS_INTO_ONE_FILE
           THEN /\ _maps' = Append(_maps, generate_dos_map(lump))
                /\ save_index' = save_index + 1
                /\ UNCHANGED <<written, v_status>>
           ELSE /\ written' = Append(written, [name |-> lump.name, ext |-> ".map",
                                               content |-> <<generate_dos_map(lump)>>])
                /\ save_index' = save_index + 1
                /\ UNCHANGED <<_maps, v_status>>
    /\ UNCHANGED <<COMBINE_MAPS_INTO_ONE_FILE, DUMP_RAW_DATA, to_save>>

\* Lines 270-273, called when the loop of extract_files is over, by its end
\* or by the break at an unknown entry.
SaveCombinedMapFile ==
    /\ v_status = "saving"
    /\ IF MayWriteCombined(_maps)
       THEN written' = Append(written, [name |-> "MAPS", ext |-> ".map", content |-> _maps])
       ELSE UNCHANGED written
    /\ v_status' = "combined"
    /\ UNCHANGED <<COMBINE_MAPS_INTO_ONE_FILE, DUMP_RAW_DATA, to_save, save_index, _maps>>

\* main.py lines 14-17 and wad.py line 64: the settings are made and no map
\* is kept yet.
InitSaveMaps ==
    /\ COMBINE_MAPS_INTO_ONE_FILE \in BOOLEAN
    /\ DUMP_RAW_DATA \in BOOLEAN
    /\ to_save \in SeqsUpTo(SavedLumpPool, MaxSaved)
    /\ save_index = 0
    /\ _maps = <<>>
    /\ written = <<>>
    /\ v_status = "saving"

\* Nothing is being saved.
IdleSaveMaps ==
    /\ COMBINE_MAPS_INTO_ONE_FILE = FALSE
    /\ DUMP_RAW_DATA = FALSE
    /\ to_save = <<>>
    /\ save_index = 0
    /\ _maps = <<>>
    /\ written = <<>>
    /\ v_status = "idle"

NextSaveMaps ==
    \/ SaveLump /\ UNCHANGED exceptSaveMaps
    \/ SaveCombinedMapFile /\ UNCHANGED exceptSaveMaps

-----------------------------------------------------------------------------
(* The specifications: one component runs, the others are idle.            *)

DecompressInit ==
    /\ InitDecompress /\ IdleObjects /\ IdleChunk /\ IdleWav
    /\ IdleModulator /\ IdleBuilder /\ IdleDosMap /\ IdleExtract
    /\ IdleWdc /\ IdleZone /\ IdleSoundfont /\ IdleDirectory
    /\ IdleGetLump /\ IdleSaveMaps

ObjectsInit ==
    /\ IdleDecompress /\ InitObjects /\ IdleChunk /\ IdleWav
    /\ IdleModulator /\ IdleBuilder /\ IdleDosMap /\ IdleExtract
    /\ IdleWdc /\ IdleZone /\ IdleSoundfont /\ IdleDirectory
    /\ IdleGetLump /\ IdleSaveMaps

ChunkInit ==
    /\ IdleDecompress /\ IdleObjects /\ InitChunk /\ IdleWav
    /\ IdleModulator /\ IdleBuilder /\ IdleDosMap /\ IdleExtract
    /\ IdleWdc /\ IdleZone /\ IdleSoundfont /\ IdleDirectory
    /\ IdleGetLump /\ IdleSaveMaps

WavInit ==
    /\ IdleDecompress /\ IdleObjects /\ IdleChunk /\ InitWav
    /\ IdleModulator /\ IdleBuilder /\ IdleDosMap /\ IdleExtract
    /\ IdleWdc /\ IdleZone /\ IdleSoundfont /\ IdleDirectory
    /\ IdleGetLump /\ IdleSaveMaps

ModulatorInit ==
    /\ IdleDecompress /\ IdleObjects /\ IdleChunk /\ IdleWav
    /\ InitModulator /\ IdleBuilder /\ IdleDosMap /\ IdleExtract
    /\ IdleWdc /\ IdleZone /\ IdleSoundfont /\ IdleDirectory
    /\ IdleGetLump /\ IdleSaveMaps

BuilderInit ==
    /\ IdleDecompress /\ IdleObjects /\ IdleChunk /\ IdleWav
    /\ IdleModulator /\ InitBuilder /\ IdleDosMap /\ IdleExtract
    /\ IdleWdc /\ IdleZone /\ IdleSoundfont /\ IdleDirectory
    /\ IdleGetLump /\ IdleSaveMaps

DosMapInit ==
    /\ IdleDecompress /\ IdleObjects /\ IdleChunk /\ IdleWav
    /\ IdleModulator /\ IdleBuilder /\ InitDosMap /\ IdleExtract
    /\ IdleWdc /\ IdleZone /\ IdleSoundfont /\ IdleDirectory
    /\ IdleGetLump /\ IdleSaveMaps

ExtractInit ==
    /\ IdleDecompress /\ IdleObjects /\ IdleChunk /\ IdleWav
    /\ IdleModulator /\ IdleBuilder /\ IdleDosMap /\ InitExtract
    /\ IdleWdc /\ IdleZone /\ IdleSoundfont /\ IdleDirectory
    /\ IdleGetLump /\ IdleSaveMaps

WdcInit ==
    /\ IdleDecompress /\ IdleObjects /\ IdleChunk /\ IdleWav
    /\ IdleModulator /\ IdleBuilder /\ IdleDosMap /\ IdleExtract
    /\ InitWdc /\ IdleZone /\ IdleSoundfont /\ IdleDirectory
    /\ IdleGetLump /\ IdleSaveMaps

ZoneInit ==
    /\ IdleDecompress /\ IdleObjects /\ IdleChunk /\ IdleWav
    /\ IdleModulator /\ IdleBuilder /\ IdleDosMap /\ IdleExtract
    /\ IdleWdc /\ InitZone /\ IdleSoundfont /\ IdleDirectory
    /\ IdleGetLump /\ IdleSaveMaps

SoundfontInit ==
    /\ IdleDecompress /\ IdleObjects /\ IdleChunk /\ IdleWav
    /\ IdleModulator /\ IdleBuilder /\ IdleDosMap /\ IdleExtract
    /\ IdleWdc /\ IdleZone /\ InitSoundfont /\ IdleDirectory
    /\ IdleGetLump /\ IdleSaveMaps

DirectoryInit ==
    /\ IdleDecompress /\ IdleObjects /\ IdleChunk /\ IdleWav
    /\ IdleModulator /\ IdleBuilder /\ IdleDosMap /\ IdleExtract
    /\ IdleWdc /\ IdleZone /\ IdleSoundfont /\ InitDirectory
    /\ IdleGetLump /\ IdleSaveMaps

GetLumpInit ==
    /\ IdleDecompress /\ IdleObjects /\ IdleChunk /\ IdleWav
    /\ IdleModulator /\ IdleBuilder /\ IdleDosMap /\ IdleExtract
    /\ IdleWdc /\ IdleZone /\ IdleSoundfont /\ IdleDirectory
    /\ InitGetLump /\ IdleSaveMaps

SaveMapsInit ==
    /\ IdleDecompress /\ IdleObjects /\ IdleChunk /\ IdleWav
    /\ IdleModulator /\ IdleBuilder /\ IdleDosMap /\ IdleExtract
    /\ IdleWdc /\ IdleZone /\ IdleSoundfont /\ IdleDirectory
    /\ IdleGetLump /\ InitSaveMaps

SpecDecompress == DecompressInit /\ [][NextDecompress]_vars

SpecObjects == ObjectsInit /\ [][NextObjects]_vars

SpecChunk == ChunkInit /\ [][NextChunk]_vars

SpecWav == WavInit /\ [][NextWav]_vars

SpecModulator == ModulatorInit /\ [][NextModulator]_vars

SpecBuilder == BuilderInit /\ [][NextBuilder]_vars

SpecDosMap == DosMapInit /\ [][NextDosMap]_vars

SpecExtract == ExtractInit /\ [][NextExtract]_vars

SpecWdc == WdcInit /\ [][NextWdc]_vars

SpecZone == ZoneInit /\ [][NextZone]_vars

SpecSoundfont == SoundfontInit /\ [][NextSoundfont]_vars

SpecDirectory == DirectoryInit /\ [][NextDirectory]_vars

SpecGetLump == GetLumpInit /\ [][NextGetLump]_vars

SpecSaveMaps == SaveMapsInit /\ [][NextSaveMaps]_vars

\* The program as a whole: any one of its components at work.
Init ==
    \/ DecompressInit \/ ObjectsInit \/ ChunkInit \/ WavInit \/ ModulatorInit
    \/ BuilderInit \/ DosMapInit \/ ExtractInit \/ WdcInit \/ ZoneInit
    \/ SoundfontInit \/ DirectoryInit \/ GetLumpInit \/ SaveMapsInit

Next ==
    \/ NextDecompress \/ NextObjects \/ NextChunk \/ NextWav \/ NextModulator
    \/ NextBuilder \/ NextDosMap \/ NextExtract \/ NextWdc \/ NextZone
    \/ NextSoundfont \/ NextDirectory \/ NextGetLump \/ NextSaveMaps

Spec == Init /\ [][Next]_vars

-----------------------------------------------------------------------------
(* Properties of WADFile._decompress.                                      *)

\* The item about to be decoded is an offset/length pair whose two bytes are
\* in the input; its fields as section 4.2 of the specification lays them out.
PendingBackReference ==
    /\ d_status = "running"
    /\ bits_left > 0
    /\ flag_byte % 2 = 1
    /\ position + 1 < Len(compressed_data)

PendingOffset == compressed_data[position + 1] * 16 + (compressed_data[position + 2] \div 16)

PendingNibble == compressed_data[position + 2] % 16

C2_BackReferenceCopies ==
    [][(/\ PendingBackReference
        /\ PendingNibble >= 1
        /\ 1 <= PendingOffset
        /\ PendingOffset <= Len(output_data))
       => (/\ d_status' = "running"
           /\ Len(output_data') = Len(output_data) + PendingNibble + 1
           /\ SubSeq(output_data', 1, Len(output_data)) = output_data
           /\ \A i \in (Len(output_data) + 1)..Len(output_data') :
                 output_data'[i] = output_data'[i - PendingOffset]
           /\ (output_data = <<65>> /\ PendingOffset = 1 /\ PendingNibble = 2
                 => output_data' = <<65, 65, 65, 65>>))]_vars

\* The stream <<2, "A", 0x00, 0x12, ...>> after its back-reference (offset 1,
\* nibble 2, a run that overlaps itself) has been decoded.
C2_Witness ==
    /\ d_status = "running"
    /\ Len(compressed_data) >= 4
    /\ SubSeq(compressed_data, 1, 4) = <<2, 65, 0, 18>>
    /\ position = 4
    /\ output_data = <<65, 65, 65, 65>>

\* The bytes a literal-only stream of this length carries: full groups of a
\* flag byte and eight literals, then a last group of a flag byte, r < 8
\* literals and the two sentinel bytes.
LiteralGroups(stream) == (Len(stream) - 3) \div 9

LiteralRest(stream) == (Len(stream) - 3) % 9

LiteralPayload(stream) ==
    [i \in 1..(8 * LiteralGroups(stream) + LiteralRest(stream)) |->
        stream[i + ((i - 1) \div 8) + 1]]

\* stream encodes its payload with literal items only: flag bit 0 for every
\* payload byte, then one flag bit 1 and a pair whose length nibble is 0.
IsLiteralOnlyStream(stream) ==
    /\ Len(stream) >= 3
    /\ LiteralRest(stream) < 8
    /\ \A g \in 0..(LiteralGroups(stream) - 1) : stream[9 * g + 1] = 0
    /\ LET flag == stream[9 * LiteralGroups(stream) + 1]
           r == LiteralRest(stream)
       IN  flag % (2 ^ r) = 0 /\ (flag \div (2 ^ r)) % 2 = 1
    /\ stream[Len(stream)] % 16 = 0

\* C3: decompressing a literal-only stream of B never raises and returns
\* exactly B.
C3_LiteralStreamRoundTrip ==
    IsLiteralOnlyStream(compressed_data)
        => /\ d_status \in {"running", "returned"}
           /\ d_status = "returned" => d_result = <<LiteralPayload(compressed_data)>>
           /\ d_status = "running" =>
                 /\ position < Len(compressed_data)
                 /\ Len(output_data) <= Len(LiteralPayload(compressed_data))
                 /\ output_data =
                      SubSeq(LiteralPayload(compressed_data), 1, Len(output_data))

\* A literal-only stream of nine bytes (it spans two flag bytes) was returned.
C3_Witness ==
    /\ IsLiteralOnlyStream(compressed_data)
    /\ d_status = "returned"
    /\ Len(d_result[1]) = 9
    /\ d_result[1][9] # d_result[1][1]

\* C25: decompression stops at the first pair whose length nibble is 0,
\* whatever its offset bits: the step that decodes it returns exactly the
\* output produced before it, and no step follows the return, so the bits
\* left in the flag byte and the input bytes after the pair are not read.
C25_SentinelEndsDecompression ==
    [][/\ d_status # "returned"
       /\ (PendingBackReference /\ PendingNibble = 0)
             => /\ d_status' = "returned"
                /\ d_result' = <<output_data>>
                /\ output_data' = output_data]_vars

\* The stream <<6, "A", 0x00, 0x00, 0x12>>: the pair with offset 0 and length
\* nibble 0 ended it with "A" returned, a flag bit of 1 and one input byte
\* left unread.
C25_Witness ==
    /\ compressed_data = <<6, 65, 0, 0, 18>>
    /\ d_status = "returned"
    /\ d_result = <<<<65>>>>
    /\ position = 4
    /\ flag_byte % 2 = 1
    /\ bits_left > 1

\* The stream <<2, "A", 0x41, 0x00, 0x21>>: the pair with offset 0x410 and
\* length nibble 0 ended it the same way.
C25_WitnessLargeOffset ==
    /\ compressed_data = <<2, 65, 65, 0, 33>>
    /\ d_status = "returned"
    /\ d_result = <<<<65>>>>
    /\ position = 4

-----------------------------------------------------------------------------
(* Properties of GameMap._read_objects.                                    *)

OnMap(v) == 0 <= v /\ v < 64

\* The warnings logged while reading the record at position i (from 1).
WarningsFor(i) == {k \in DOMAIN warnings : warnings[k].o = i - 1}

\* C4: a record with a coordinate outside [0,64) raises exactly one bounds
\* warning, a record with both coordinates inside raises none.
C4_OneWarningPerOffMapObject ==
    \A i \in 1..Len(objects) :
        Cardinality(WarningsFor(i)) =
            IF OnMap(raw_objects[i].x) /\ OnMap(raw_objects[i].y) THEN 0 ELSE 1

\* C5: every record read is kept, in input order; a coordinate outside
\* [0,64) is stored as v - 64 and one inside unchanged; (64, 10) becomes (0, 10).
WrappedOnce(v) == IF OnMap(v) THEN v ELSE v - 64

C5_ObjectsKeptAndWrappedOnce ==
    /\ r_status \in {"reading", "done"} => Len(objects) = o
    /\ r_status = "done" /\ object_count <= Len(raw_objects) => Len(objects) = object_count
    /\ \A i \in 1..Len(objects) :
          /\ objects[i].code = raw_objects[i].code
          /\ objects[i].wall = raw_objects[i].wall
          /\ objects[i].x = WrappedOnce(raw_objects[i].x)
          /\ objects[i].y = WrappedOnce(raw_objects[i].y)
          /\ (raw_objects[i].x = 64 /\ raw_objects[i].y = 10
                => objects[i].x = 0 /\ objects[i].y = 10)

\* Two records were read: (64, 10), stored as (0, 10), and then (65, 200),
\* stored as (1, 136).
C5_Witness ==
    /\ r_status = "done"
    /\ Len(objects) = 2
    /\ raw_objects[1].x = 64 /\ raw_objects[1].y = 10
    /\ objects[1].x = 0 /\ objects[1].y = 10
    /\ raw_objects[2].x = 65 /\ raw_objects[2].y = 200
    /\ objects[2].x = 1 /\ objects[2].y = 136

-----------------------------------------------------------------------------
(* Properties of riff.make_chunk.                                          *)

\* C6: make_chunk(tag, payload) is the tag, the little-endian u32 length of
\* the unpadded payload, and the payload followed by one zero byte exactly
\* when its length is odd.
C6_LengthFieldIsUnpaddedSize ==
    c_status = "returned"
        => chunk = <<identifier \o LittleEndian(Len(data), 4) \o data
                        \o (IF Len(data) % 2 = 1 THEN <<0>> ELSE <<>>)>>

-----------------------------------------------------------------------------
(* Properties of wav.Writer.write.                                         *)

\* The number a little-endian field of n bytes at offset at (from 0) holds.
RECURSIVE FieldValue(_, _, _)
FieldValue(bytes, at, n) ==
    IF n = 0 THEN 0 ELSE bytes[at + 1] + 256 * FieldValue(bytes, at + 1, n - 1)

\* The size field of the top-level RIFF chunk, bytes 4..7 of the file.
RiffSizeField == FieldValue(file, 4, 4)

LoopChunksWritten(flag) == writer.loop_offset # <<>> /\ flag

\* The example of the specification: 200 mono 16-bit samples, loop_offset 100,
\* both optional chunks enabled.
IsTwoHundredSampleExample ==
    /\ writer.sound_data = TwoHundredSamples
    /\ writer.channels = 1
    /\ writer.bits_per_sample = 16
    /\ writer.loop_offset = <<100>>
    /\ writer.INCLUDE_LOOP_CUE_CHUNK_IN_WAV
    /\ writer.INCLUDE_LOOP_SMPL_CHUNK_IN_WAV

\* C7: the declared RIFF chunk size is 36 + the PCM payload bytes + 30 when
\* the cue+label group is included + 68 when the sampler chunk is included;
\* it is 534 in the example.
C7_DeclaredSizeAddsThirtyForCue ==
    w_status = "written"
        => /\ RiffSizeField =
                36 + Len(PackSamples(writer))
                   + (IF LoopChunksWritten(writer.INCLUDE_LOOP_CUE_CHUNK_IN_WAV) THEN 30 ELSE 0)
                   + (IF LoopChunksWritten(writer.INCLUDE_LOOP_SMPL_CHUNK_IN_WAV) THEN 68 ELSE 0)
           /\ IsTwoHundredSampleExample => RiffSizeField = 534

\* C7 as amended: the cue+label group costs 66 bytes (the 36-byte cue chunk
\* and the 30-byte label list), and the example's field is 570.
C7_DeclaredSizeAddsSixtySixForCue ==
    w_status = "written"
        => /\ RiffSizeField =
                36 + Len(PackSamples(writer))
                   + (IF LoopChunksWritten(writer.INCLUDE_LOOP_CUE_CHUNK_IN_WAV) THEN 66 ELSE 0)
                   + (IF LoopChunksWritten(writer.INCLUDE_LOOP_SMPL_CHUNK_IN_WAV) THEN 68 ELSE 0)
           /\ IsTwoHundredSampleExample => RiffSizeField = 570

\* The example has been written.
C7_Witness ==
    /\ w_status = "written"
    /\ IsTwoHundredSampleExample
    /\ Len(PackSamples(writer)) = 400
    /\ RiffSizeField = 570

\* The size field of the data chunk, bytes 40..43 of the file.
DataSizeField == FieldValue(file, 40, 4)

\* What follows the sample data in the file: the chunks for the loop.
AfterSampleData == SubSeq(file, 44 + DataSizeField + 1, Len(file))

-----------------------------------------------------------------------------
(* Properties of soundfont.ModulatorSource.pack.                           *)

\* The bitwise or of two natural numbers.
RECURSIVE BitOr(_, _)
BitOr(a, b) ==
    IF a = 0 THEN b
    ELSE IF b = 0 THEN a
    ELSE (IF a % 2 = 1 \/ b % 2 = 1 THEN 1 ELSE 0) + 2 * BitOr(a \div 2, b \div 2)

\* (type<<10)|(polarity<<9)|(direction<<8)|(cc_flag<<7)|index
PackedAsBitFields(src) ==
    BitOr(src.source_type * 1024,
      BitOr(src.polarity * 512,
        BitOr(src.direction * 256,
          BitOr((IF src.cc_flag THEN 1 ELSE 0) * 128, src.index))))

\* C8: for every source the validation accepts, pack returns
\* (type<<10)|(polarity<<9)|(direction<<8)|(cc_flag<<7)|index; it returns 1282
\* for type 1, polarity 0, direction 1, cc_flag 0, index 2.
C8_PackIsTheBitFieldValue ==
    m_status = "returned"
        => /\ packed = <<PackedAsBitFields(source)>>
           /\ (source = [source_type |-> 1, polarity |-> 0, direction |-> 1,
                         cc_flag |-> FALSE, index |-> 2]
                 => packed = <<1282>>)

\* The reserved controllers: 0, 6, 32, 38, 98, 99, 100, 101 and 120..127.
ReservedControllers == {0, 6, 32, 38, 98, 99, 100, 101} \cup (120..127)

\* C9: with the CC flag clear a source is accepted exactly when its index is
\* in SourceController, with the flag set exactly when its index is not a
\* reserved controller; a rejected source yields no packed value.  (The type,
\* polarity and direction are valid and the source is not an amount source.)
C9_AcceptedIndexes ==
    (/\ m_status # "ready"
     /\ source.source_type \in 0..63
     /\ source.polarity \in {0, 1}
     /\ source.direction \in {0, 1}
     /\ ~is_amount_source)
        => /\ m_status = "returned" <=>
                 IF source.cc_flag
                 THEN source.index \notin ReservedControllers
                 ELSE source.index \in SourceController
           /\ m_status # "returned" => packed = <<>>

-----------------------------------------------------------------------------
(* Properties of soundfont.SoundFontBuilder.                               *)

\* The successful calls of an operation made so far.
CallsOf(op) == {i \in DOMAIN calls : calls[i].op = op /\ ~calls[i].raised}

\* The records passed in field f of the first n calls of an operation.
RECURSIVE RecordsPassed(_, _, _)
RecordsPassed(op, f, n) ==
    IF n = 0 THEN 0
    ELSE RecordsPassed(op, f, n - 1)
         + (IF calls[n].op = op THEN Len(calls[n].args[f]) ELSE 0)

JustBuilt == calls # <<>> /\ calls[Len(calls)].op = "build"

TerminalBagCountsLiveRecords ==
    JustBuilt
        => /\ pbag[Len(pbag)].generator_index = Len(pgen) - 1
           /\ pbag[Len(pbag)].generator_index =
                 RecordsPassed("add_preset_zone", "generator", Len(calls))
           /\ pbag[Len(pbag)].modulator_index = Len(pmod) - 1
           /\ pbag[Len(pbag)].modulator_index =
                 RecordsPassed("add_preset_zone", "modulator", Len(calls))

\* C10: after adding 3 presets to a new builder the preset-bag list has 4
\* entries, and at build time the terminal bag's generator and modulator
\* indices equal the numbers of live preset generators and modulators.
C10_ThreePresetsMakeFourBags ==
    /\ (Cardinality(CallsOf("add_preset")) = 3 /\ CallsOf("add_preset_zone") = {})
          => Len(pbag) = 4
    /\ TerminalBagCountsLiveRecords

\* C10 as amended: it is add_preset_zone that adds a bag (3 zones make 4
\* entries); add_preset adds a preset header and leaves the bag list alone.
C10_ThreeZonesMakeFourBags ==
    /\ Len(pbag) = Cardinality(CallsOf("add_preset_zone")) + 1
    /\ Cardinality(CallsOf("add_preset_zone")) = 3 => Len(pbag) = 4
    /\ Len(phdr) = Cardinality(CallsOf("add_preset")) + 1
    /\ TerminalBagCountsLiveRecords

\* Three zones were added and the bank was built: four bags, the terminal one
\* pointing past the live generators and modulators.
C10_Witness ==
    /\ JustBuilt
    /\ Cardinality(CallsOf("add_preset_zone")) = 3
    /\ Len(pbag) = 4
    /\ pbag[4].generator_index >= 3
    /\ pbag[4].modulator_index >= 1

\* No build() has touched the terminal records so far.
NeverBuilt == \A i \in DOMAIN calls : calls[i].op # "build"

\* The number of successful calls of an operation before the i-th call.
SuccessfulBefore(op, i) ==
    Cardinality({j \in 1..(i - 1) : calls[j].op = op /\ ~calls[j].raised})

\* The records passed in field f of the first n calls of a zone operation, in
\* the order they were passed.
RECURSIVE ZoneRecords(_, _, _)
ZoneRecords(op, f, n) ==
    IF n = 0 THEN <<>>
    ELSE ZoneRecords(op, f, n - 1)
         \o (IF calls[n].op = op THEN calls[n].args[f] ELSE <<>>)

\* The records of a list in front of its last one.
LiveRecords(list) == SubSeq(list, 1, Len(list) - 1)

\* The last record of each list is the one made at construction (build() may
\* have written the index fields of four of them).
ListsEndWithTerminal ==
    /\ pmod[Len(pmod)] = TerminalModulator
    /\ pgen[Len(pgen)] = TerminalGenerator
    /\ imod[Len(imod)] = TerminalModulator
    /\ igen[Len(igen)] = TerminalGenerator
    /\ shdr[Len(shdr)] = TerminalSample
    /\ [phdr[Len(phdr)] EXCEPT !.preset_bag_index = 0] = TerminalPresetHeader
    /\ [inst[Len(inst)] EXCEPT !.instrument_bag_index = 0] = TerminalInstrument
    /\ [pbag[Len(pbag)] EXCEPT !.generator_index = 0, !.modulator_index = 0] = TerminalBag
    /\ [ibag[Len(ibag)] EXCEPT !.generator_index = 0, !.modulator_index = 0] = TerminalBag
    /\ NeverBuilt =>
          /\ phdr[Len(phdr)] = TerminalPresetHeader
          /\ inst[Len(inst)] = TerminalInstrument
          /\ pbag[Len(pbag)] = TerminalBag
          /\ ibag[Len(ibag)] = TerminalBag

\* The live records of each list are the records added, in the order added.
AddedRecordsInOrder ==
    /\ Len(phdr) = Cardinality(CallsOf("add_preset")) + 1
    /\ Len(inst) = Cardinality(CallsOf("add_instrument")) + 1
    /\ Len(shdr) = Cardinality(CallsOf("add_sample")) + 1
    /\ Len(pbag) = Cardinality(CallsOf("add_preset_zone")) + 1
    /\ Len(ibag) = Cardinality(CallsOf("add_instrument_zone")) + 1
    /\ LiveRecords(pgen) = ZoneRecords("add_preset_zone", "generator", Len(calls))
    /\ LiveRecords(pmod) = ZoneRecords("add_preset_zone", "modulator", Len(calls))
    /\ LiveRecords(igen) = ZoneRecords("add_instrument_zone", "generator", Len(calls))
    /\ LiveRecords(imod) = ZoneRecords("add_instrument_zone", "modulator", Len(calls))

\* The index a call returned is the number of records added before it, and
\* the record at that position is the record the call added.
ReturnedIndexIsPosition ==
    \A i \in DOMAIN calls :
        LET c == calls[i]
            r == c.result
        IN  /\ (c.op = "add_preset" /\ ~c.raised) =>
                  /\ r = SuccessfulBefore("add_preset", i)
                  /\ r + 1 < Len(phdr)
                  /\ phdr[r + 1].name = c.args.name
                  /\ phdr[r + 1].preset = c.args.preset
                  /\ phdr[r + 1].bank = c.args.bank
            /\ (c.op = "add_instrument" /\ ~c.raised) =>
                  /\ r = SuccessfulBefore("add_instrument", i)
                  /\ r + 1 < Len(inst)
                  /\ inst[r + 1].name = c.args
            /\ (c.op = "add_sample" /\ ~c.raised) =>
                  /\ r = SuccessfulBefore("add_sample", i)
                  /\ r + 1 < Len(shdr)
                  /\ shdr[r + 1].name = c.args.name
                  /\ shdr[r + 1].sample_rate = c.args.sample_rate
                  /\ shdr[r + 1].original_pitch = c.args.original_pitch

\* C11: after any sequence of add_preset, add_instrument, add_sample,
\* add_preset_zone and add_instrument_zone calls every record list ends with
\* exactly one terminal record (the one made at construction), the added
\* records lie before it in the order they were added, and the index returned
\* by add_preset, add_instrument and add_sample is the position of the new
\* record in its list.
C11_RecordsBeforeTerminalInOrder ==
    calls # <<>> =>
        /\ ListsEndWithTerminal
        /\ AddedRecordsInOrder
        /\ ReturnedIndexIsPosition

\* Two presets, a zone of two generators and a sample were added, in that
\* order, and nothing was built.
C11_Witness ==
    /\ NeverBuilt
    /\ Len(phdr) = 3 /\ phdr[1].name = "I5" /\ phdr[2].name = "PERCUSSION"
    /\ Len(pgen) = 3 /\ pgen[1] = KeyRangeGenerator /\ pgen[2] = InstrumentGenerator
    /\ Len(shdr) = 2 /\ shdr[1].name = "P36"
    /\ calls[Len(calls)].result = 0

\* The position in calls of the k-th call of a zone operation.
KthCall(op, k) ==
    CHOOSE i \in DOMAIN calls : calls[i].op = op /\ SuccessfulBefore(op, i) = k - 1

\* The records of a list at the indexes from..(to - 1), counted from 0.
Slice(list, from, to) == SubSeq(list, from + 1, to)

\* The k-th bag of a bag list spans, in a record list, exactly the records
\* passed in field f of the k-th call of the zone operation.
ZoneSpansItsRecords(op, bags, records, index, f) ==
    \A k \in 1..(Len(bags) - 1) :
        /\ k <= Cardinality(CallsOf(op))
        /\ 0 <= bags[k][index]
        /\ bags[k][index] <= bags[k + 1][index]
        /\ bags[k + 1][index] <= Len(records) - 1
        /\ Slice(records, bags[k][index], bags[k + 1][index])
              = calls[KthCall(op, k)].args[f]

\* C12: after build(), the records of the generator list from the k-th bag's
\* generator_index up to but excluding the next bag's (the terminal bag's for
\* the last zone) are exactly the generators passed to the k-th zone call, in
\* order; the same holds for modulators, for preset and instrument zones, and
\* for zones added with an empty generator or modulator sequence.
C12_BagRangesAreTheZonesRecords ==
    JustBuilt =>
        /\ Len(pbag) = Cardinality(CallsOf("add_preset_zone")) + 1
        /\ Len(ibag) = Cardinality(CallsOf("add_instrument_zone")) + 1
        /\ ZoneSpansItsRecords("add_preset_zone", pbag, pgen, "generator_index", "generator")
        /\ ZoneSpansItsRecords("add_preset_zone", pbag, pmod, "modulator_index", "modulator")
        /\ ZoneSpansItsRecords("add_instrument_zone", ibag, igen, "generator_index", "generator")
        /\ ZoneSpansItsRecords("add_instrument_zone", ibag, imod, "modulator_index", "modulator")

\* A preset zone with no generator, a preset zone with two generators and an
\* instrument zone were added and the bank was built.
C12_Witness ==
    /\ JustBuilt
    /\ Len(pbag) = 3
    /\ pbag[1].generator_index = 0 /\ pbag[2].generator_index = 0
    /\ pbag[3].generator_index = 2
    /\ Len(pgen) = 3
    /\ Len(ibag) = 2 /\ ibag[2].modulator_index = 1

-----------------------------------------------------------------------------
(* Properties of GameMap.generate_dos_map.                                 *)

\* The object the placement loop is about to place.
NextObject == _objects[placed + 1]

PlacingAnObject == g_status = "placing" /\ placed < Len(_objects)

\* The tile k steps from a position in a direction.
TileAlong(pos, direction, k) ==
    CASE direction = "north" -> pos.x + (pos.y - k) * 64
      [] direction = "south" -> pos.x + (pos.y + k) * 64
      [] direction = "west" -> (pos.x - k) + pos.y * 64
      [] direction = "east" -> (pos.x + k) + pos.y * 64

\* The coordinate, along the axis of a direction, two steps from a position.
EndCoordinate(pos, direction) ==
    CASE direction = "north" -> pos.y - 2
      [] direction = "south" -> pos.y + 2
      [] direction = "west" -> pos.x - 2
      [] direction = "east" -> pos.x + 2

\* A direction is valid for a pushwall on plane 0 p0: the tile two steps
\* away is inside the outer ring, the tile one step away is a floor code
\* (0x6C..0x8F) and the tile two steps away is the pushwall's wall byte.
ValidDirections(p0, obj) ==
    {d \in {"north", "south", "west", "east"} :
        /\ EndCoordinate(obj, d) \in 1..62
        /\ p0[TileAlong(obj, d, 1)] \in 108..143
        /\ p0[TileAlong(obj, d, 2)] = obj.wall[1]}

\* The planes when the pushwall about to be placed has been written (its
\* code to plane 1, its wall byte to plane 0) and inference has not begun.
BeforeInference ==
    <<[tiles[1] EXCEPT ![TileIndex(NextObject)] = NextObject.wall[1]],
      [tiles[2] EXCEPT ![TileIndex(NextObject)] = NextObject.code]>>

\* The elements of a sequence.
Range(seq) == {seq[i] : i \in DOMAIN seq}

\* C13: with inference enabled, a pushwall with exactly one valid direction
\* has plane 0 two steps in that direction set to the plane 0 value one step
\* in that direction and no other tile changed; with zero or at least two
\* valid directions no tile changes and one diagnostic is reported that
\* names exactly the valid directions (or none).
C13_PushwallInference ==
    [][(/\ PlacingAnObject
        /\ NextObject.code = 98
        /\ DETECT_PUSHWALL_DIRECTION_WHEN_CONVERTING_TO_DOS)
       => LET before == BeforeInference
              valid == ValidDirections(before[1], NextObject)
          IN  IF Cardinality(valid) = 1
              THEN LET d == CHOOSE e \in valid : TRUE
                   IN  /\ tiles' = <<[before[1] EXCEPT ![TileAlong(NextObject, d, 2)] =
                                          before[1][TileAlong(NextObject, d, 1)]],
                                     before[2]>>
                       /\ errors' = errors
              ELSE /\ tiles' = before
                   /\ Len(errors') = Len(errors) + 1
                   /\ SubSeq(errors', 1, Len(errors)) = errors
                   /\ LET report == errors'[Len(errors')]
                      IN  /\ report.x = NextObject.x /\ report.y = NextObject.y
                          /\ Len(report.dirs) = Cardinality(Range(report.dirs))
                          /\ Range(report.dirs) =
                                IF valid = {} THEN {"none"} ELSE valid]_vars

\* The pushwall at (10, 10) had west as its one valid direction, so the tile
\* two steps west took the floor code; the pushwall at (2, 10) has the edge
\* of the map two steps west and no valid direction, which was reported.
C13_Witness ==
    /\ g_status = "returned"
    /\ DETECT_PUSHWALL_DIRECTION_WHEN_CONVERTING_TO_DOS
    /\ Len(_objects) = 2
    /\ _objects[1].x = 10 /\ _objects[1].code = 98
    /\ _objects[2].x = 2 /\ _objects[2].code = 98
    /\ _walls[8 + 10 * 64] = 161
    /\ tiles[1][8 + 10 * 64] = 108
    /\ errors = <<[x |-> 2, y |-> 10, dirs |-> <<"none">>]>>

\* The plane 0 code of raw wall code c: c - 0x80 when c >= 0x80,
\* 0x6C + floor_codes[c] when c < 64, and c when 64 <= c < 0x80.
ExpectedWallCode(c) ==
    IF c >= 128 THEN c - 128
    ELSE IF c < 64 THEN 108 + _floorcodes[c]
    ELSE c

\* The tile indexes on which an object of the map is placed.
ObjectTiles == {TileIndex(_objects[k]) : k \in DOMAIN _objects}

\* The tiles two steps north, south, west or east of a pushwall object.
PushwallEndTiles ==
    {TileAlong(_objects[k], d, 2) :
        k \in {j \in DOMAIN _objects : _objects[j].code = 98},
        d \in {"north", "south", "west", "east"}}

\* C14: on every tile index where no object is placed, plane 0 produced by
\* generate_dos_map from raw wall code c is c - 0x80 when c >= 0x80,
\* 0x6C + floor_codes[c] when c < 64, and c when 64 <= c < 0x80.
C14_UnoccupiedTilesAreConvertedWalls ==
    g_status = "returned" =>
        \A i \in TileIndexes \ ObjectTiles : tiles[1][i] = ExpectedWallCode(_walls[i])

\* C14 as amended: the tile two steps from a pushwall in a direction is left
\* out when pushwall direction inference is enabled, since inference may have
\* set it to a floor code.
C14_UnoccupiedTilesOffPushwallEnds ==
    g_status = "returned" =>
        \A i \in TileIndexes \ ObjectTiles :
            (DETECT_PUSHWALL_DIRECTION_WHEN_CONVERTING_TO_DOS => i \notin PushwallEndTiles)
                => tiles[1][i] = ExpectedWallCode(_walls[i])

\* A map with two objects was returned, with the largest floor index, the
\* largest raw code and a code of 64..0x7F converted on tiles 2, 3 and 0.
C14_Witness ==
    /\ g_status = "returned"
    /\ DETECT_PUSHWALL_DIRECTION_WHEN_CONVERTING_TO_DOS
    /\ Len(_objects) = 2
    /\ _objects[1].code = 98
    /\ _walls[2] = 63 /\ tiles[1][2] = 108 + 63
    /\ _walls[3] = 255 /\ tiles[1][3] = 127
    /\ _walls[0] = 70 /\ tiles[1][0] = 70

\* C15: an object whose code is in 0x5A..0x61 is written to plane 0 at index
\* x + y*64 (when that index is on the planes) and never to plane 1: placing
\* it leaves plane 1 unchanged at every index.
C15_DoorsGoToPlaneZero ==
    [][(PlacingAnObject /\ NextObject.code \in 90..97)
       => /\ tiles'[2] = tiles[2]
          /\ TileIndex(NextObject) \in TileIndexes =>
                /\ placed' = placed + 1
                /\ tiles'[1] = [tiles[1] EXCEPT ![TileIndex(NextObject)] = NextObject.code]]_vars

\* A door (0x5A) at (10, 11) and a plain object at (10, 12) were placed: the
\* door is on plane 0 and not on plane 1, the plain object is on plane 1.
C15_Witness ==
    /\ g_status = "returned"
    /\ Len(_objects) = 2
    /\ _objects[1] = [x |-> 10, y |-> 11, code |-> 90, wall |-> <<>>]
    /\ _objects[2].code = 89
    /\ tiles[1][10 + 11 * 64] = 90
    /\ tiles[2][10 + 11 * 64] = 0
    /\ tiles[2][10 + 12 * 64] = 89

-----------------------------------------------------------------------------
(* Properties of riff.make_list and riff.make_riff.                        *)

\* C16: for every outer tag, inner tag and sequence of parts, the group
\* operation (make_list with outer tag LIST, make_riff with outer tag RIFF)
\* returns the same bytes as make_chunk(outer tag, inner tag + the parts
\* joined).
C16_GroupIsAChunkOfTheJoinedParts ==
    /\ l_status = "list returned"
          => group = <<make_chunk(<<76, 73, 83, 84>>, identifier \o Join(chunks))>>
    /\ l_status = "riff returned"
          => group = <<make_chunk(<<82, 73, 70, 70>>, identifier \o Join(chunks))>>

-----------------------------------------------------------------------------
(* Properties of main.extract_files.                                       *)

InDirectory(name) == \E i \in DOMAIN _lumps : _lumps[i].name = name

\* The number of times a value occurs in a sequence.
Occurrences(seq, value) == Cardinality({i \in DOMAIN seq : seq[i] = value})

\* C17: when a requested lump name is not in the directory only that request
\* fails: an unknown-entry error is reported for it, and the requested lumps
\* that follow it in the same run are still extracted.
C17_UnknownEntryFailsAlone ==
    e_status = "done" =>
        \A name \in Range(entries) :
            IF InDirectory(name)
            THEN Occurrences(saved, name) = Occurrences(entries, name)
            ELSE Occurrences(logged, name) = Occurrences(entries, name)

-----------------------------------------------------------------------------
(* Properties of GameMap.save_as_wdc_map_file.                             *)

\* The documented layout: a header of the magic, an i32 and two i16, and per
\* map a name, two i16 and two planes of 4096 u16.
WdcHeaderLength == Len(WdcMagic) + 4 + 2 + 2

WdcMapLength == 16 + 2 + 2 + _PLANE_COUNT * 2 * _MAP_SIZE * _MAP_SIZE

\* The little-endian number of two bytes at offset at, unsigned (it is the
\* signed one too when it is below 32768).
DecodeShort(bytes, at) == bytes[at + 1] + 256 * bytes[at + 2]

\* The little-endian signed number of four bytes at offset at.
DecodeInt(bytes, at) ==
    DecodeShort(bytes, at) + 65536 * bytes[at + 3]
        + 16777216 * (IF bytes[at + 4] < 128 THEN bytes[at + 4] ELSE bytes[at + 4] - 256)

\* A NUL-padded name without its padding.
RECURSIVE StripNuls(_)
StripNuls(bytes) ==
    IF bytes # <<>> /\ bytes[Len(bytes)] = 0
    THEN StripNuls(SubSeq(bytes, 1, Len(bytes) - 1))
    ELSE bytes

\* The plane of 4096 little-endian u16 at offset at.
DecodePlane(bytes, at) ==
    [i \in 1..(_MAP_SIZE * _MAP_SIZE) |-> DecodeShort(bytes, at + 2 * (i - 1))]

\* The k-th map of a file, by the documented layout.
DecodeMap(bytes, k) ==
    LET at == WdcHeaderLength + (k - 1) * WdcMapLength
    IN  [name |-> StripNuls(SubSeq(bytes, at + 1, at + 16)),
         width |-> DecodeShort(bytes, at + 16),
         height |-> DecodeShort(bytes, at + 18),
         tiles |-> <<DecodePlane(bytes, at + 20),
                     DecodePlane(bytes, at + 20 + 2 * _MAP_SIZE * _MAP_SIZE)>>]

\* The maps are such as the format holds: names of at most 16 characters.
NamesFit == \A k \in DOMAIN maps : Len(maps[k].name) <= 16

\* C18: for every sequence of converted maps (ASCII names of at most 16
\* characters, two planes of 4096 u16 codes), decoding the file written by
\* save_as_wdc_map_file by the documented layout (magic WDC3.1, i32 map
\* count, i16 plane count 2, i16 name width 16, then per map a 16-byte
\* NUL-padded name, i16 64, i16 64, plane0 then plane1 as 4096 little-endian
\* u16 each) reproduces the map count, the names and the exact tile arrays,
\* in order.
C18_WdcFileRoundTrip ==
    (s_status = "closed" /\ NamesFit) =>
        /\ Len(wdc_file) = WdcHeaderLength + Len(maps) * WdcMapLength
        /\ SubSeq(wdc_file, 1, 6) = WdcMagic
        /\ DecodeInt(wdc_file, 6) = Len(maps)
        /\ DecodeShort(wdc_file, 10) = 2
        /\ DecodeShort(wdc_file, 12) = 16
        /\ \A k \in DOMAIN maps :
              LET decoded == DecodeMap(wdc_file, k)
              IN  /\ decoded.name = maps[k].name
                  /\ decoded.width = 64
                  /\ decoded.height = 64
                  /\ decoded.tiles = maps[k].tiles

\* Two different maps were written to one file.
C18_Witness ==
    /\ s_status = "closed"
    /\ NamesFit
    /\ Len(maps) = 2
    /\ maps[1].tiles # maps[2].tiles
    /\ Len(maps[1].name) = 16
    /\ Len(maps[2].name) = 5

-----------------------------------------------------------------------------
(* Properties of SoundFontBuilder.add_sample.                              *)

\* The position in calls of the k-th add_sample that returned.
KthSample(k) ==
    CHOOSE i \in CallsOf("add_sample") : SuccessfulBefore("add_sample", i) = k - 1

\* The 16-bit frames of the k-th sample added.
FramesOfSample(k) ==
    LET a == calls[KthSample(k)].args
    IN  _convert_sample_to_16bit_signed(a.data, a.bits_per_sample, a.signed).data

\* C19: after any sequence of add_sample calls, the sample data contains,
\* directly after each sample's 16-bit frames, at least 46 zero-valued frames
\* before the next sample's start (and after the last sample); each sample
\* header's start and end delimit exactly that sample's frames, so the next
\* sample's start equals the previous sample's end plus 46.
C19_GuardFramesFollowEverySample ==
    LET n == Len(shdr) - 1
    IN  /\ n = Cardinality(CallsOf("add_sample"))
        /\ Len(smpl) = IF n = 0 THEN 0 ELSE 2 * (shdr[n].end + 46)
        /\ \A k \in 1..n :
              /\ shdr[k].start = IF k = 1 THEN 0 ELSE shdr[k - 1].end + 46
              /\ 2 * (shdr[k].end - shdr[k].start) = Len(FramesOfSample(k))
              /\ 2 * (shdr[k].end + 46) <= Len(smpl)
              /\ SubSeq(smpl, 2 * shdr[k].start + 1, 2 * shdr[k].end) = FramesOfSample(k)
              /\ \A i \in (2 * shdr[k].end + 1)..(2 * shdr[k].end + 92) : smpl[i] = 0

\* Three samples were added, of three frames, of two and of one.
C19_Witness ==
    /\ Len(shdr) = 4
    /\ shdr[1].end = 3
    /\ shdr[2].start = 49 /\ shdr[2].end = 51
    /\ shdr[3].start = 97 /\ shdr[3].end = 98
    /\ Len(smpl) = 288

-----------------------------------------------------------------------------
(* Properties of create_prefix_generators and create_instrument_generators. *)

\* The positions of the generators of a list with one of some operators.
PositionsOf(list, operators) == {i \in DOMAIN list : list[i].operator \in operators}

\* The link generator of the function that returned: INSTRUMENT for a preset
\* zone, SAMPLE_ID for an instrument zone.
LinkOperator == IF z_status = "prefix returned" THEN 41 ELSE 53

\* C20: every generator list returned by create_prefix_generators or
\* create_instrument_generators has KEY_RANGE first when present, VEL_RANGE
\* second when present and never without a KEY_RANGE before it (a key range
\* of (0,127) is supplied when only a velocity range is given), and, unless
\* the zone is the global zone, exactly one link generator (INSTRUMENT,
\* respectively SAMPLE_ID) as its last element; the list for the global zone
\* contains no link generator.
C20_GeneratorOrder ==
    z_status \in {"prefix returned", "instrument returned"} =>
        LET a == zone_arguments
        IN  /\ PositionsOf(generators, {43}) \subseteq {1}
            /\ PositionsOf(generators, {44}) \subseteq {2}
            /\ PositionsOf(generators, {44}) # {} => PositionsOf(generators, {43}) = {1}
            /\ a.key_range # <<>> =>
                  /\ generators # <<>>
                  /\ generators[1] = [operator |-> 43, amount |-> a.key_range[1]]
            /\ a.vel_range # <<>> =>
                  /\ Len(generators) >= 2
                  /\ generators[2] = [operator |-> 44, amount |-> a.vel_range[1]]
                  /\ a.key_range = <<>> =>
                        generators[1] = [operator |-> 43, amount |-> <<0, 127>>]
            /\ IF a.target = <<>>
               THEN PositionsOf(generators, {41, 53}) = {}
               ELSE /\ PositionsOf(generators, {41, 53}) = {Len(generators)}
                    /\ generators # <<>>
                    /\ generators[Len(generators)] =
                           [operator |-> LinkOperator, amount |-> <<a.target[1], 0>>]

\* An instrument zone of the second sample was given a velocity range only,
\* with a loop mode, a root key and a tuning.
C20_Witness ==
    /\ z_status = "instrument returned"
    /\ zone_arguments.key_range = <<>>
    /\ zone_arguments.vel_range = <<<<36, 36>>>>
    /\ zone_arguments.target = <<1>>
    /\ Len(generators) = 7
    /\ generators[7].operator = 53

-----------------------------------------------------------------------------
(* Properties of WADFile.save_instruments_to_soundfont.                    *)

\* An exception ended the function.
SoundfontFailed ==
    f_status \notin {"idle", "ready", "melodic", "percussion", "built", "open", "written"}

\* C21: when the soundfont is produced from the container, every validation
\* failure happens before the output file is created: JAGWOLF3D.SF2 is opened
\* and written only after build() has returned the complete bank, so a failed
\* build leaves no partial output file.
C21_FileOnlyAfterBuild ==
    /\ sf2_file # <<>> => (sf2_data # <<>> /\ f_status \in {"open", "written"})
    /\ SoundfontFailed => (sf2_file = <<>> /\ sf2_data = <<>>)
    /\ f_status = "written" => sf2_file = sf2_data

\* The second instrument was rejected after the first was added whole.
C21_Witness ==
    /\ f_status = "AssertionError"
    /\ sf_position = 1
    /\ Len(sf2.phdr) = 2
    /\ sf2_file = <<>>

\* The arguments of an add_sample call that is to be rejected: 16-bit
\* unsigned input, or a loop point, sample rate, root key, pitch correction
\* or bit depth outside its allowed range.
IsRejectedSample(a) ==
    \/ a.bits_per_sample = 16 /\ ~a.signed
    \/ a.start_loop < 0 \/ a.start_loop >= Len(a.data)
    \/ a.end_loop < 0 \/ a.end_loop > Len(a.data)
    \/ a.sample_rate < 400 \/ a.sample_rate > 50000
    \/ a.original_pitch \notin (0..127) \cup {255}
    \/ a.pitch_correction < -128 \/ a.pitch_correction > 127
    \/ a.bits_per_sample \notin {8, 16}

\* C22: an add_sample call that is rejected - 16-bit unsigned input as
\* unsupported, or a loop point, sample rate, root key, pitch correction or
\* bit depth outside its allowed range - raises an error and leaves the
\* builder's sample data and sample-header list exactly as they were before
\* the call.
C22_RejectedSampleChangesNothing ==
    [][(/\ Len(calls') = Len(calls) + 1
        /\ calls'[Len(calls')].op = "add_sample"
        /\ IsRejectedSample(calls'[Len(calls')].args))
          => (/\ calls'[Len(calls')].raised
              /\ smpl' = smpl
              /\ shdr' = shdr)]_vars

\* A sample was added, then one without data and one of 16-bit unsigned data
\* were rejected.
C22_Witness ==
    /\ Len(calls) = 3
    /\ calls[1].op = "add_sample" /\ ~calls[1].raised
    /\ calls[2].op = "add_sample" /\ calls[2].raised /\ calls[2].args.data = <<>>
    /\ calls[3].op = "add_sample" /\ calls[3].raised /\ ~calls[3].args.signed
    /\ Len(shdr) = 2
    /\ Len(smpl) = 98

-----------------------------------------------------------------------------
(* Properties of WADFile._load_directory.                                  *)

\* An entry with offset 0 and length 0.
IsMarkerEntry(e) == e.offset = 0 /\ e.length = 0

\* The name of the most recent marker among the first n entries, <<>> if none.
RECURSIVE ActiveMarker(_)
ActiveMarker(n) ==
    IF n = 0 THEN <<>>
    ELSE IF IsMarkerEntry(directory[n]) THEN <<directory[n].name>>
    ELSE ActiveMarker(n - 1)

\* The type an earlier name-based rule gives a name of the model, "" if none.
NameRuleType(name) ==
    IF StartsWith(name, "MAP") THEN "Map"
    ELSE IF StartsWith(name, "SPR") THEN "Sprite"
    ELSE IF StartsWith(name, "WALL") THEN "Wall"
    ELSE IF StartsWith(name, "I_") \/ StartsWith(name, "M_") THEN "Image"
    ELSE IF StartsWith(name, "0") THEN "Song"
    ELSE ""

\* C23: while the directory is walked in order, the type given to a lump
\* depends only on its own name, offset and length and on the name of the
\* most recent marker lump (offset 0 and length 0) before it: a lump is typed
\* Sound only when that marker is SOUNDS, Instrument only when that marker is
\* SONGEND and its name starts with I or P, and any earlier name-based rule
\* (a name starting with MAP, SPR, WALL, I_, M_ or 0) wins over these
\* marker-based rules; non-marker lumps never change the active marker.
C23_TypeFollowsNameAndMarker ==
    /\ Len(typed_lumps) <= Len(directory)
    /\ last_marker = ActiveMarker(Len(typed_lumps))
    /\ \A k \in DOMAIN typed_lumps :
          LET lump == typed_lumps[k]
          IN  /\ lump.name = directory[k].name
              /\ lump.type = "Marker" <=> IsMarkerEntry(directory[k])
              /\ lump.type = "Sound" => ActiveMarker(k - 1) = <<"SOUNDS">>
              /\ lump.type = "Instrument" =>
                    /\ ActiveMarker(k - 1) = <<"SONGEND">>
                    /\ StartsWith(lump.name, "I") \/ StartsWith(lump.name, "P")
              /\ (~IsMarkerEntry(directory[k]) /\ NameRuleType(lump.name) # "") =>
                    lump.type = NameRuleType(lump.name)
              /\ \A j \in DOMAIN typed_lumps :
                    (/\ directory[j].name = directory[k].name
                     /\ directory[j].offset = directory[k].offset
                     /\ directory[j].length = directory[k].length
                     /\ ActiveMarker(j - 1) = ActiveMarker(k - 1))
                       => typed_lumps[j].type = lump.type

\* After the marker SOUNDS a lump named SOUNDS that is no marker was typed a
\* sound, and the lump I5 after it too: the marker is still SOUNDS.
C23_Witness ==
    /\ dir_status = "returned"
    /\ Len(typed_lumps) = 3
    /\ typed_lumps[1].type = "Marker" /\ typed_lumps[1].name = "SOUNDS"
    /\ typed_lumps[2].type = "Sound" /\ typed_lumps[2].name = "SOUNDS"
    /\ typed_lumps[3].type = "Sound" /\ typed_lumps[3].name = "I5"
    /\ last_marker = <<"SOUNDS">>

\* The directions the step that places a pushwall judged valid, read from
\* what the step did: the directions its diagnostic names, or the one
\* direction whose end tile it overwrote.
JudgedValid ==
    IF errors' # errors
    THEN Range(errors'[Len(errors')].dirs) \ {"none"}
    ELSE {d \in {"north", "south", "west", "east"} :
             tiles'[1][TileAlong(NextObject, d, 2)] #
                BeforeInference[1][TileAlong(NextObject, d, 2)]}

\* C24: a direction of a pushwall is judged valid exactly when the tile two
\* steps away has its coordinate along the axis in 1..62, plane 0 one step
\* away holds a floor code (0x6C..0x8F) and plane 0 two steps away holds the
\* pushwall's wall byte, all read on plane 0 as the objects placed before the
\* pushwall (and the pushwall's own wall byte) have left it; the objects
\* placed after it are not on that plane.
C24_ValidityReadsCurrentPlane ==
    [][(/\ PlacingAnObject
        /\ NextObject.code = _PUSHWALL
        /\ DETECT_PUSHWALL_DIRECTION_WHEN_CONVERTING_TO_DOS)
       => LET p0 == [tiles[1] EXCEPT ![TileIndex(NextObject)] = NextObject.wall[1]]
          IN  /\ \A d \in {"north", "south", "west", "east"} :
                    d \in JudgedValid <=>
                       /\ 1 <= EndCoordinate(NextObject, d)
                       /\ EndCoordinate(NextObject, d) <= 62
                       /\ 108 <= p0[TileAlong(NextObject, d, 1)]
                       /\ p0[TileAlong(NextObject, d, 1)] <= 143
                       /\ p0[TileAlong(NextObject, d, 2)] = NextObject.wall[1]
              /\ \A k \in 1..placed :
                    IsDoorCode(_objects[k].code) =>
                       p0[TileIndex(_objects[k])] = _objects[k].code
              /\ \A k \in (placed + 2)..Len(_objects) :
                    (/\ IsDoorCode(_objects[k].code)
                     /\ TileIndex(_objects[k]) \in TileIndexes
                     /\ \A j \in 1..placed : TileIndex(_objects[j]) # TileIndex(_objects[k]))
                       => p0[TileIndex(_objects[k])] = ConvertWallCode(_walls[TileIndex(_objects[k])])]_vars

\* With corridors south and west of the pushwall at (10, 10): the door placed
\* before it one step south left west the one valid direction, and the tile
\* two steps west took the floor code.
C24_Witness ==
    /\ g_status = "returned"
    /\ DETECT_PUSHWALL_DIRECTION_WHEN_CONVERTING_TO_DOS
    /\ Len(_objects) = 2
    /\ _objects[1].code = 90 /\ _objects[1].x = 10 /\ _objects[1].y = 11
    /\ _objects[2].code = _PUSHWALL /\ _objects[2].x = 10
    /\ _walls[10 + 12 * 64] = 161 /\ _walls[8 + 10 * 64] = 161
    /\ tiles[1][10 + 11 * 64] = 90
    /\ tiles[1][8 + 10 * 64] = 108
    /\ errors = <<>>

\* The same map with the door placed after the pushwall: south and west
\* were both valid when the pushwall was placed and both were reported,
\* though the door now stands one step south.
C24_WitnessDoorAfter ==
    /\ g_status = "returned"
    /\ Len(_objects) = 2
    /\ _objects[1].code = _PUSHWALL /\ _objects[1].x = 10
    /\ _objects[2].code = 90 /\ _objects[2].x = 10 /\ _objects[2].y = 11
    /\ tiles[1][10 + 11 * 64] = 90
    /\ Len(errors) = 1
    /\ Range(errors[1].dirs) = {"south", "west"}

-----------------------------------------------------------------------------
(* Properties of WADFile.get_lump.                                         *)

\* The directory indexes after i whose entry has a nonzero offset.
LaterOffsets(i) == {j \in (i + 1)..(Len(wad_lumps) - 1) : wad_lumps[j + 1].offset # 0}

\* The smallest of them.
FirstLaterOffset(i) == CHOOSE j \in LaterOffsets(i) : \A k \in LaterOffsets(i) : j <= k

\* The bytes of the file from container offset a up to container offset b.
Extent(a, b) == SubSeq(WadBytes, _file_offset + a + 1, _file_offset + b)

\* Thread t's call cannot be disturbed by another thread's seek or read.
Undisturbed(t) == sync # "none" \/ \A u \in Threads \ {t} : call_pc[u] = "ready"

\* C26: for a compressed lump at index i with a later entry of nonzero
\* offset, j the first such entry, a call that no other call disturbs reads
\* exactly offset[j] - offset[i] bytes starting at base + offset[i], and what
\* it returns is the decompression of exactly those bytes.
C26_CompressedExtent ==
    [][\A t \in Threads :
          (/\ call_pc[t] \in {"sought", "read"}
           /\ call_pc'[t] # call_pc[t]
           /\ Undisturbed(t)
           /\ wad_lumps[call_index[t] + 1].is_compressed
           /\ LaterOffsets(call_index[t]) # {})
          => LET i == call_index[t]
                 lump == wad_lumps[i + 1]
                 j == FirstLaterOffset(i)
                 count == wad_lumps[j + 1].offset - lump.offset
             IN  IF call_pc[t] = "sought"
                 THEN /\ cursor[ReaderOf(t)] = _file_offset + lump.offset
                      /\ call_pc'[t] = "read"
                      /\ Len(call_data'[t]) = count
                      /\ call_data'[t] = Extent(lump.offset, wad_lumps[j + 1].offset)
                      /\ cursor'[ReaderOf(t)] = cursor[ReaderOf(t)] + count
                 ELSE /\ call_data[t] = Extent(lump.offset, wad_lumps[j + 1].offset)
                      /\ call_pc'[t] = "returned"
                      /\ call_result'[t] =
                            <<[name |-> lump.name, data |-> <<_decompress(call_data[t]).out>>]>>]_vars

\* The compressed lump at index 1 (offset 4, the next nonzero offset is 10 at
\* index 3, past the marker at index 2) was read as the six bytes at file
\* positions 6..11 and returned as "AAAA".
C26_Witness ==
    /\ Len(wad_lumps) = 6
    /\ call_index[1] = 1
    /\ call_pc[1] = "returned"
    /\ call_data[1] = <<6, 65, 0, 18, 0, 0>>
    /\ call_result[1] = <<[name |-> "A", data |-> <<<<65, 65, 65, 65>>>>]>>
    /\ \A u \in Threads \ {1} : call_pc[u] = "ready"

\* What get_lump is to return for a lump: None for an empty lump, the bytes
\* stored or their decompression otherwise.
LumpContent(i) ==
    LET lump == wad_lumps[i + 1]
    IN  IF lump.length = 0 THEN <<>>
        ELSE IF lump.is_compressed
        THEN <<_decompress(Extent(lump.offset, wad_lumps[FirstLaterOffset(i) + 1].offset)).out>>
        ELSE <<Extent(lump.offset, lump.offset + lump.length)>>

C27_WitnessMutex ==
    /\ sync = "mutex"
    /\ call_index[1] = 3 /\ call_index[2] = 1
    /\ call_pc[1] = "returned" /\ call_pc[2] = "returned"
    /\ call_result[1][1].data = <<<<7, 8, 9>>>>
    /\ call_result[2][1].data = <<<<65, 65, 65, 65>>>>

-----------------------------------------------------------------------------
(* Properties of the bag indexes of the headers.                           *)

\* The position in calls of the k-th call of an operation that returned.
KthReturned(op, k) ==
    CHOOSE i \in CallsOf(op) : Cardinality({j \in CallsOf(op) : j < i}) = k - 1

\* The zones of an operation added before position i of calls.
ZonesBefore(zone_op, i) == Cardinality({j \in CallsOf(zone_op) : j < i})

\* The headers of a list (all but the terminal one) hold, in field f, the
\* number of zones added before them, and after build() the terminal one
\* holds the number of live bags and no header holds more.
BagIndexesCountZones(headers, f, op, zone_op, bags) ==
    /\ Len(headers) - 1 = Cardinality(CallsOf(op))
    /\ \A k \in 1..(Len(headers) - 1) :
          /\ headers[k][f] = ZonesBefore(zone_op, KthReturned(op, k))
          /\ k > 1 => headers[k - 1][f] <= headers[k][f]
    /\ (calls # <<>> /\ calls[Len(calls)].op = "build") =>
          /\ headers[Len(headers)][f] = Len(bags) - 1
          /\ Len(bags) - 1 = Cardinality(CallsOf(zone_op))
          /\ \A k \in 1..(Len(headers) - 1) : headers[k][f] <= headers[Len(headers)][f]

\* C29: after any sequence of builder operations, the bag index of each
\* preset header (instrument record) is the number of preset (instrument)
\* zones added before it was added, the indexes do not decrease along the
\* list, and after build() none is greater than the terminal record's, which
\* is the number of live bags.
C29_BagIndexesCountZones ==
    /\ BagIndexesCountZones(phdr, "preset_bag_index", "add_preset", "add_preset_zone", pbag)
    /\ BagIndexesCountZones(inst, "instrument_bag_index", "add_instrument",
                            "add_instrument_zone", ibag)

\* A preset with no zone before it, a zone, a preset with one zone before it,
\* then build(): the bag indexes are 0, 1 and, in the terminal header, 1.
C29_Witness ==
    /\ Len(calls) = 4
    /\ calls[1].op = "add_preset" /\ ~calls[1].raised
    /\ calls[2].op = "add_preset_zone"
    /\ calls[3].op = "add_preset" /\ ~calls[3].raised
    /\ calls[4].op = "build"
    /\ Len(phdr) = 3
    /\ phdr[1].preset_bag_index = 0
    /\ phdr[2].preset_bag_index = 1
    /\ phdr[3].preset_bag_index = 1

-----------------------------------------------------------------------------
(* Properties of the combined map file.                                    *)

\* The converted maps of the Map lumps among the first n lumps saved.
RECURSIVE MapsSaved(_)
MapsSaved(n) ==
    IF n = 0 THEN <<>>
    ELSE LET lump == to_save[n]
         IN  IF lump.type = "Map" /\ lump.data # <<>>
             THEN Append(MapsSaved(n - 1),
                         [name |-> lump.name, dos |-> lump.data[1], detect |-> TRUE])
             ELSE MapsSaved(n - 1)

\* The files written with the name of the combined file.
CombinedFiles == {k \in DOMAIN written : written[k].name = "MAPS" /\ written[k].ext = ".map"}

\* C30: in combine-maps mode without raw dump, saving a Map lump writes no
\* file of its own and appends its converted map to the pending list;
\* save_combined_map_file then writes one container with exactly the maps
\* of the Map lumps saved so far, in the order they were saved, and no file
\* when no map was saved; in raw-dump mode no map is converted or appended
\* and no combined file is written.
C30_CombinedFileHoldsSavedMaps ==
    /\ (COMBINE_MAPS_INTO_ONE_FILE /\ ~DUMP_RAW_DATA) =>
          /\ _maps = MapsSaved(save_index)
          /\ \A k \in DOMAIN written :
                written[k].ext = ".map" => (written[k].name = "MAPS" /\ k = Len(written))
          /\ v_status = "saving" => CombinedFiles = {}
          /\ v_status = "combined" =>
                IF MapsSaved(save_index) = <<>> THEN CombinedFiles = {}
                ELSE /\ CombinedFiles = {Len(written)}
                     /\ written[Len(written)].content = MapsSaved(save_index)
    /\ DUMP_RAW_DATA =>
          /\ _maps = <<>>
          /\ CombinedFiles = {}
          /\ \A k \in DOMAIN written : written[k].ext = "" /\ written[k].content \in STRING

\* In combine-maps mode MAP02 and then MAP01 were saved, with a sound
\* between them; the one file written after the sound's is the combined
\* file, and it holds the two maps in that order.
C30_Witness ==
    /\ COMBINE_MAPS_INTO_ONE_FILE /\ ~DUMP_RAW_DATA
    /\ v_status = "combined"
    /\ Len(to_save) = 3 /\ save_index = 3
    /\ to_save[1].name = "MAP02" /\ to_save[2].name = "SND1" /\ to_save[3].name = "MAP01"
    /\ Len(written) = 2
    /\ written[2] = [name |-> "MAPS", ext |-> ".map",
                     content |-> <<[name |-> "MAP02", dos |-> "walls 2", detect |-> TRUE],
                                   [name |-> "MAP01", dos |-> "walls 1", detect |-> TRUE]>>]

\* In raw-dump mode a map was saved as its raw data and no combined file
\* followed.
C30_WitnessRaw ==
    /\ DUMP_RAW_DATA /\ COMBINE_MAPS_INTO_ONE_FILE
    /\ v_status = "combined"
    /\ save_index = 1
    /\ written = <<[name |-> "MAP01", ext |-> "", content |-> "walls 1"]>>

====
